---- MODULE Spec2Model ----
(***************************************************************************)
(* Model of the path-structure detector, the mobility-file writer/reader, *)
(* the CSV parsers and the single-file, folder and batch drivers of        *)
(* scripts/draw_coords/coord_utils.py, of scripts/createSimpleScenarios/   *)
(* utils.py, of the run-all driver scripts/drawCoords/drawAll.py, of the   *)
(* main loop of scripts/create_maps_and_jobs/generate_maps_and_jobs.py and *)
(* of read_csv_from_directory of scripts/graphs/graph_utils.py.            *)
(*                                                                         *)
(* A Python str is a sequence of one-character strings; a filesystem path  *)
(* is the sequence of its segments (what split("/") yields), the root of   *)
(* an absolute path being the empty first segment.                         *)
(***************************************************************************)
EXTENDS Integers, Sequences, FiniteSets, TLC

VARIABLES
    pc,                \* which call the program made last
    base_folder,       \* the directory handed to the detector
    csv_path,          \* the file path handed to parse_csv_path_structure
    detection_result,  \* dict returned by detect_scenario_from_basepath
    redetection,       \* dict returned by the detector on its own scenario_path
    components,        \* dict (or None) returned by parse_csv_path_structure
    mobility_file,     \* the lines of the ns2 mobility file
    written,           \* the node records put in the file, in order
    foreign,           \* how many writes to the file writeNodeToFile did not make
    coord_dict,        \* what parse_node_list returned
    lookup,            \* the node id looked up and what find_coords_from_file returned
    raw_transmission_vector, \* the "Transmission vector" cell of the CSV row
    edges_written,           \* the edges the cell was written from, in order
    transmission_vector,     \* what parse_transmission_vector returned
    raw_transmission_map,    \* the "Transmission map" cell of the CSV row
    entries_written,         \* the sender{receivers} entries the cell was written from
    transmission_map,        \* what parse_transmission_map returned
    files,             \* the CSV files on disk: path -> lines, a line being its cells
    aux_files,         \* the mobility and polygon files that exist on disk
    args,              \* the namespace parser.parse_args() returned
    config,            \* the SimulationConfig process_common_arguments returned
    csv_files,         \* the list find_csv_files / find_csv_files_in_folder returned
    scenario_name,     \* the driver's local scenario_name
    processed_count,   \* the driver's local processed_count
    successful_count,  \* the driver's local successful_count
    calls,             \* the calls of the injected plot_function, in order
    images,            \* the image files written
    stats,             \* the tally the driver returned
    exit_status,       \* the exit status of the script, -1 while it runs
    skipped,           \* the CSV files a driver passed over for validate_paths errors
    traceback,         \* the exception that left the script uncaught, "" if none
    task_queue,        \* drawAll: the commands pool.map has not handed out yet
    worker_task,       \* drawAll: the command each pool worker is running
    script_runs,       \* drawAll: per script, how often os.system started it
    script_done,       \* drawAll: the scripts whose OS process has ended
    pool_state,        \* drawAll: the state of the Pool object
    job_args,          \* generate_maps_and_jobs: what main parsed from the command line
    cw_index,          \* generate_maps_and_jobs: place of the outer loop of main
    scenario_index,    \* generate_maps_and_jobs: place of the inner loop of main
    area,              \* generate_maps_and_jobs: main's local area
    run_scenario_calls, \* generate_maps_and_jobs: the calls of run_scenario, in order
    listing,           \* graph_utils: what os.listdir(path) yields, with the files' rows
    file_index,        \* graph_utils: place of the loop over the listing
    lists,             \* graph_utils: the nine lists of read_csv_from_directory
    statistics         \* graph_utils: the dict read_csv_from_directory returned

path_vars == <<base_folder, csv_path, detection_result, redetection, components>>

mobility_vars == <<mobility_file, written, foreign, coord_dict, lookup>>

vector_vars == <<raw_transmission_vector, edges_written, transmission_vector>>

map_vars == <<raw_transmission_map, entries_written, transmission_map>>

cell_vars == <<vector_vars, map_vars>>

run_vars == <<files, aux_files, args, config, csv_files, scenario_name,
              processed_count, successful_count, calls, images, stats, exit_status,
              skipped, traceback>>

pool_vars == <<task_queue, worker_task, script_runs, script_done, pool_state>>

jobs_vars == <<job_args, cw_index, scenario_index, area, run_scenario_calls>>

graph_vars == <<listing, file_index, lists, statistics>>

tool_vars == <<jobs_vars, graph_vars>>

vars == <<pc, path_vars, mobility_vars, cell_vars, run_vars, pool_vars, tool_vars>>

-----------------------------------------------------------------------------
(* Bounds of the model *)

MaxDepth == 12     \* longest path, in segments, the environment offers

MaxNodes == 2      \* node records in a mobility file

MaxForeign == 1    \* writes to a mobility file that writeNodeToFile did not make

MaxEdges == 2      \* edges in a transmission-vector cell

MaxEmpty == 2      \* underscores in a cell beyond the one that joins two edges

MaxEntries == 2    \* sender entries in a transmission-map cell

MaxRows == 1       \* data rows in a CSV file the simulator builds up

-----------------------------------------------------------------------------
(* Characters and str methods *)

UpperCase == {"A","B","C","D","E","F","G","H","I","J","K","L","M",
              "N","O","P","Q","R","S","T","U","V","W","X","Y","Z"}

LowerCase == {"a","b","c","d","e","f","g","h","i","j","k","l","m",
              "n","o","p","q","r","s","t","u","v","w","x","y","z"}

Letter == UpperCase \cup LowerCase

Digit == {"0","1","2","3","4","5","6","7","8","9"}

Whitespace == {" ", "\n", "\t", "\r"}

Max(S) == CHOOSE m \in S : \A o \in S : o <= m

Min(S) == CHOOSE m \in S : \A o \in S : m <= o

\* str.endswith
EndsWith(s, suffix) ==
    /\ Len(s) >= Len(suffix)
    /\ SubSeq(s, Len(s) - Len(suffix) + 1, Len(s)) = suffix

\* str.split(c) for a one-character separator c
RECURSIVE Split(_, _)
Split(s, c) ==
    LET hits == {i \in 1..Len(s) : s[i] = c}
    IN  IF hits = {} THEN <<s>>
        ELSE LET i == Min(hits)
             IN  <<SubSeq(s, 1, i - 1)>> \o Split(SubSeq(s, i + 1, Len(s)), c)

\* str.replace(c, "") for a one-character c
RECURSIVE Remove(_, _)
Remove(s, c) ==
    IF s = <<>> THEN <<>>
    ELSE (IF Head(s) = c THEN <<>> ELSE <<Head(s)>>) \o Remove(Tail(s), c)

\* str.strip()
Strip(s) ==
    LET keep == {i \in 1..Len(s) : s[i] \notin Whitespace}
    IN  IF keep = {} THEN <<>> ELSE SubSeq(s, Min(keep), Max(keep))

\* the decimal digits, by value
DigitChars == <<"0","1","2","3","4","5","6","7","8","9">>

DigitValue(c) == (CHOOSE i \in 1..10 : DigitChars[i] = c) - 1

\* str(n) of a non-negative int
RECURSIVE str_nat(_)
str_nat(n) ==
    IF n < 10 THEN <<DigitChars[n + 1]>>
    ELSE str_nat(n \div 10) \o <<DigitChars[(n % 10) + 1]>>

\* str(n) of an int
str(n) == IF n < 0 THEN <<"-">> \o str_nat(-n) ELSE str_nat(n)

\* the value of a non-empty string of decimal digits
RECURSIVE digits_value(_)
digits_value(s) ==
    IF Len(s) = 1 THEN DigitValue(s[1])
    ELSE 10 * digits_value(SubSeq(s, 1, Len(s) - 1)) + DigitValue(s[Len(s)])

\* whether int(s) succeeds on a string without sign: it is all digits
is_int(s) == Len(s) >= 1 /\ \A i \in 1..Len(s) : s[i] \in Digit

\* int(s), where is_int(s)
int(s) == digits_value(s)

\* whether float(s) succeeds: surrounding whitespace, a sign, then digits
\* (whole numbers only; the model writes no fraction and no exponent)
is_float(s) ==
    LET t == Strip(s)
    IN  /\ Len(t) >= 1
        /\ IF t[1] \in {"-", "+"} THEN is_int(Tail(t)) ELSE is_int(t)

\* float(s), where is_float(s)
float(s) ==
    LET t == Strip(s)
    IN  IF t[1] = "-" THEN 0 - digits_value(Tail(t))
        ELSE IF t[1] = "+" THEN digits_value(Tail(t))
        ELSE digits_value(t)

-----------------------------------------------------------------------------
(* The regular expressions of structure_patterns, as re.match applies them *)

AllIn(s, S) == \A i \in 1..Len(s) : s[i] \in S

\* ^[A-Za-z]+-\d+$
MatchScenario(s) ==
    \E k \in 1..Len(s) :
        /\ s[k] = "-"
        /\ k > 1
        /\ k < Len(s)
        /\ AllIn(SubSeq(s, 1, k - 1), Letter)
        /\ AllIn(SubSeq(s, k + 1, Len(s)), Digit)

\* ^b[01]$
MatchBuilding(s) == Len(s) = 2 /\ s[1] = "b" /\ s[2] \in {"0", "1"}

\* ^e\d+$
MatchErrorRate(s) == Len(s) >= 2 /\ s[1] = "e" /\ AllIn(Tail(s), Digit)

\* ^r\d+$
MatchTxRange(s) == Len(s) >= 2 /\ s[1] = "r" /\ AllIn(Tail(s), Digit)

\* ^j\d+$
MatchJunction(s) == Len(s) >= 2 /\ s[1] = "j" /\ AllIn(Tail(s), Digit)

\* ^cw\[.*\]$
MatchCw(s) ==
    /\ Len(s) >= 4
    /\ s[1] = "c" /\ s[2] = "w" /\ s[3] = "["
    /\ s[Len(s)] = "]"
    /\ \A i \in 4..(Len(s) - 1) : s[i] # "\n"

\* ^[A-Za-z-]+$
MatchProtocol(s) == Len(s) >= 1 /\ AllIn(s, Letter \cup {"-"})

-----------------------------------------------------------------------------
(* Program constants and sentinels *)

MaxLevels == 10    \* "while current_path and levels_back < 10"

unknown == <<"u","n","k","n","o","w","n">>

none == <<"n","o","n","e">>

dot_csv == <<".","c","s","v">>

\* Python's None for the dict parse_csv_path_structure returns
NoneComponents ==
    [is_none |-> TRUE, scenario |-> <<>>, building |-> <<>>, error_rate |-> <<>>,
     txRange |-> <<>>, junction |-> <<>>, cw |-> <<>>, protocol |-> <<>>,
     csv_filename |-> <<>>]

-----------------------------------------------------------------------------
(* validate_structure_parts *)

\* re.match(patterns[name], s)
re_match(name, s) ==
    CASE name = "scenario"   -> MatchScenario(s)
      [] name = "building"   -> MatchBuilding(s)
      [] name = "error_rate" -> MatchErrorRate(s)
      [] name = "txRange"    -> MatchTxRange(s)
      [] name = "junction"   -> MatchJunction(s)
      [] name = "cw"         -> MatchCw(s)
      [] name = "protocol"   -> MatchProtocol(s)

\* "if len(path_parts) >= 5: if re.match(patterns['cw'], path_parts[4])"
has_cw_level(path_parts) ==
    Len(path_parts) >= 5 /\ re_match("cw", path_parts[5])

expected_patterns(path_parts) ==
    IF has_cw_level(path_parts)
    THEN <<"building", "error_rate", "txRange", "junction", "cw", "protocol">>
    ELSE <<"building", "error_rate", "txRange", "junction", "protocol">>

\* mutant: the loop starts at index 1, so the building level is never checked
validate_structure_parts_skip_first(path_parts) ==
    IF path_parts = <<>> THEN TRUE
    ELSE LET expected == expected_patterns(path_parts)
             min_required_parts == Min({Len(path_parts), Len(expected)})
         IN  \A i \in 2..min_required_parts : re_match(expected[i], path_parts[i])

\* mutant: the loop stops one segment short of min_required_parts
validate_structure_parts_stops_short(path_parts) ==
    IF path_parts = <<>> THEN TRUE
    ELSE LET expected == expected_patterns(path_parts)
             min_required_parts == Min({Len(path_parts), Len(expected)})
         IN  \A i \in 1..(min_required_parts - 1) : re_match(expected[i], path_parts[i])

validate_structure_parts(path_parts) ==
    IF path_parts = <<>> THEN TRUE
    ELSE LET expected == expected_patterns(path_parts)
             min_required_parts == Min({Len(path_parts), Len(expected)})
         IN  \A i \in 1..min_required_parts : re_match(expected[i], path_parts[i])

-----------------------------------------------------------------------------
(* detect_scenario_from_basepath *)

\* os.path.basename(base_folder.rstrip("/\\"))
basename(path) == IF path = <<>> THEN <<>> ELSE path[Len(path)]

\* the result dict as initialised before the walk
initial_result(folder) ==
    [scenario_path   |-> folder,
     scenario_name   |-> basename(folder),
     sub_path        |-> <<>>,
     is_sub_branch   |-> FALSE,
     structure_valid |-> FALSE]

\* The while loop: current_path is the first k segments of normalized_path.
RECURSIVE walk_up(_, _, _)
walk_up(normalized_path, k, levels_back) ==
    IF k = 0 \/ levels_back >= MaxLevels
    THEN initial_result(normalized_path)
    ELSE LET current_path == SubSeq(normalized_path, 1, k)
             current_basename == normalized_path[k]
             rel_path == SubSeq(normalized_path, k + 1, Len(normalized_path))
         IN  IF re_match("scenario", current_basename) /\ rel_path = <<>>
             THEN [scenario_path   |-> current_path,
                   scenario_name   |-> current_basename,
                   sub_path        |-> <<>>,
                   is_sub_branch   |-> FALSE,
                   structure_valid |-> TRUE]
             ELSE IF /\ re_match("scenario", current_basename)
                     /\ validate_structure_parts(rel_path)
             THEN [scenario_path   |-> current_path,
                   scenario_name   |-> current_basename,
                   sub_path        |-> rel_path,
                   is_sub_branch   |-> levels_back > 0,
                   structure_valid |-> TRUE]
             ELSE walk_up(normalized_path, k - 1, levels_back + 1)

\* the directories, by depth, whose name matches the scenario pattern and from
\* which the rest of the path validates, among the levels_allowed nearest ones
ScenarioCandidates(folder, levels_allowed) ==
    {k \in 1..Len(folder) :
        /\ Len(folder) - k < levels_allowed
        /\ re_match("scenario", folder[k])
        /\ validate_structure_parts(SubSeq(folder, k + 1, Len(folder)))}

ResultAt(folder, k) ==
    [scenario_path   |-> SubSeq(folder, 1, k),
     scenario_name   |-> folder[k],
     sub_path        |-> SubSeq(folder, k + 1, Len(folder)),
     is_sub_branch   |-> k < Len(folder),
     structure_valid |-> TRUE]

\* mutant: the walk goes on to the outermost directory that validates
detect_scenario_outermost(folder) ==
    LET cands == ScenarioCandidates(folder, MaxLevels)
    IN  IF cands = {} THEN initial_result(folder) ELSE ResultAt(folder, Min(cands))

\* mutant: the walk has no bound on levels_back
detect_scenario_unbounded(folder) ==
    LET cands == ScenarioCandidates(folder, Len(folder) + 1)
    IN  IF cands = {} THEN initial_result(folder) ELSE ResultAt(folder, Max(cands))

\* mutant: scenario_path is left at the given folder when a scenario is found
detect_scenario_keeps_base(folder) ==
    [walk_up(folder, Len(folder), 0) EXCEPT !.scenario_path = folder]

detect_scenario_from_basepath(folder) ==
    walk_up(folder, Len(folder), 0)

-----------------------------------------------------------------------------
(* parse_csv_path_structure *)

\* mutant: the structure without the optional cw level is not handled
components_from_detection_cw_only(detection, csv_filename) ==
    LET path_parts == detection.sub_path
        n == Len(path_parts)
    IN  [is_none      |-> FALSE,
         scenario     |-> detection.scenario_name,
         building     |-> IF n >= 1 /\ path_parts[1] # <<>> THEN path_parts[1] ELSE unknown,
         error_rate   |-> IF n >= 2 THEN path_parts[2] ELSE unknown,
         txRange      |-> IF n >= 3 THEN path_parts[3] ELSE unknown,
         junction     |-> IF n >= 4 THEN path_parts[4] ELSE unknown,
         cw           |-> IF n >= 5 THEN path_parts[5] ELSE unknown,
         protocol     |-> IF n >= 6 THEN path_parts[6] ELSE unknown,
         csv_filename |-> csv_filename]

\* mutant: the defaults are the "none" sentinel instead of "unknown"
components_from_detection_none_default(detection, csv_filename) ==
    LET path_parts == detection.sub_path
        n == Len(path_parts)
        cw_level == n >= 5 /\ re_match("cw", path_parts[5])
    IN  [is_none      |-> FALSE,
         scenario     |-> detection.scenario_name,
         building     |-> IF n >= 1 /\ path_parts[1] # <<>> THEN path_parts[1] ELSE none,
         error_rate   |-> IF n >= 2 THEN path_parts[2] ELSE none,
         txRange      |-> IF n >= 3 THEN path_parts[3] ELSE none,
         junction     |-> IF n >= 4 THEN path_parts[4] ELSE none,
         cw           |-> IF cw_level THEN path_parts[5] ELSE none,
         protocol     |-> IF cw_level
                          THEN (IF n >= 6 THEN path_parts[6] ELSE none)
                          ELSE (IF n >= 5 THEN path_parts[5] ELSE none),
         csv_filename |-> csv_filename]

\* the branch taken when detection_result["structure_valid"]
components_from_detection(detection, csv_filename) ==
    LET path_parts == detection.sub_path
        n == Len(path_parts)
        cw_level == n >= 5 /\ re_match("cw", path_parts[5])
    IN  [is_none      |-> FALSE,
         scenario     |-> detection.scenario_name,
         building     |-> IF n >= 1 /\ path_parts[1] # <<>> THEN path_parts[1] ELSE unknown,
         error_rate   |-> IF n >= 2 THEN path_parts[2] ELSE unknown,
         txRange      |-> IF n >= 3 THEN path_parts[3] ELSE unknown,
         junction     |-> IF n >= 4 THEN path_parts[4] ELSE unknown,
         cw           |-> IF cw_level THEN path_parts[5] ELSE none,
         protocol     |-> IF cw_level
                          THEN (IF n >= 6 THEN path_parts[6] ELSE unknown)
                          ELSE (IF n >= 5 THEN path_parts[5] ELSE unknown),
         csv_filename |-> csv_filename]

\* the positional fallback on normalized_path.split("/")
components_from_fallback(path_parts, csv_filename) ==
    LET n == Len(path_parts)
    IN  IF n >= 8 /\ re_match("cw", path_parts[n - 2])
        THEN [is_none      |-> FALSE,
              scenario     |-> path_parts[n - 7],
              building     |-> path_parts[n - 6],
              error_rate   |-> path_parts[n - 5],
              txRange      |-> path_parts[n - 4],
              junction     |-> path_parts[n - 3],
              cw           |-> path_parts[n - 2],
              protocol     |-> path_parts[n - 1],
              csv_filename |-> csv_filename]
        ELSE IF n >= 7
        THEN [is_none      |-> FALSE,
              scenario     |-> path_parts[n - 6],
              building     |-> path_parts[n - 5],
              error_rate   |-> path_parts[n - 4],
              txRange      |-> path_parts[n - 3],
              junction     |-> path_parts[n - 2],
              cw           |-> none,
              protocol     |-> path_parts[n - 1],
              csv_filename |-> csv_filename]
        ELSE NoneComponents

parse_csv_path_structure(path) ==
    IF path = <<>> THEN NoneComponents
    ELSE LET dir_path == SubSeq(path, 1, Len(path) - 1)
             csv_filename == path[Len(path)]
             detection == detect_scenario_from_basepath(dir_path)
         IN  IF ~EndsWith(csv_filename, dot_csv) THEN NoneComponents
             ELSE IF detection.structure_valid
             THEN components_from_detection(detection, csv_filename)
             ELSE components_from_fallback(path, csv_filename)

-----------------------------------------------------------------------------
(* The directory names and file names the environment offers *)

root == <<>>

home == <<"h","o","m","e">>

Padova_25 == <<"P","a","d","o","v","a","-","2","5">>

Run_2 == <<"R","u","n","-","2">>

b0 == <<"b","0">>

b1 == <<"b","1">>

b2 == <<"b","2">>

e0 == <<"e","0">>

r300 == <<"r","3","0","0">>

j0 == <<"j","0">>

cw_32_1024 == <<"c","w","[","3","2","-","1","0","2","4","]">>

ROFF == <<"R","O","F","F">>

Fast_Broadcast == <<"F","a","s","t","-","B","r","o","a","d","c","a","s","t">>

STATIC_500 == <<"S","T","A","T","I","C","-","5","0","0">>

STATIC_100 == <<"S","T","A","T","I","C","-","1","0","0">>

STATIC_300 == <<"S","T","A","T","I","C","-","3","0","0">>

STATIC_700 == <<"S","T","A","T","I","C","-","7","0","0">>

r100 == <<"r","1","0","0">>

\* protocols_map of run_scenario, by its keys "1" to "6"
protocols_map ==
    <<Fast_Broadcast, STATIC_100, STATIC_300, STATIC_500, STATIC_700, ROFF>>

gsl_extra == <<"g","s","l","-","e","x","t","r","a">>

run1_csv == <<"r","u","n","1",".","c","s","v">>

notes_txt == <<"n","o","t","e","s",".","t","x","t">>

\* The sub-directories found below a directory of the given name: the
\* convention scenario/building/errorRate/txRange/junction/[cw/]protocol,
\* plus levels that are skipped, misnamed, nested or added below it.
Children(name) ==
    CASE name = root           -> {home, Padova_25}
      [] name = home           -> {home, Padova_25, Run_2}
      [] name = Run_2          -> {Padova_25, gsl_extra}
      [] name = Padova_25      -> {b0, b1, b2, e0}
      [] name = b0             -> {e0, r300}
      [] name = b1             -> {e0}
      [] name = b2             -> {e0}
      [] name = e0             -> {r300, r100}
      [] name = r300           -> {j0}
      [] name = r100           -> {j0}
      [] name = j0             -> {cw_32_1024, ROFF, STATIC_500}
      [] name = cw_32_1024     -> {ROFF, Fast_Broadcast, STATIC_100, STATIC_300,
                                   STATIC_500, STATIC_700}
      [] name = STATIC_100     -> {}
      [] name = STATIC_300     -> {}
      [] name = STATIC_700     -> {}
      [] name = ROFF           -> {Run_2, gsl_extra}
      [] name = Fast_Broadcast -> {gsl_extra}
      [] name = STATIC_500     -> {gsl_extra}
      [] name = gsl_extra      -> {gsl_extra}

\* where a path may start: at the root, or relative to the working directory
Roots == {root, home, Padova_25}

FileNames == {run1_csv, notes_txt}

-----------------------------------------------------------------------------
(* The mobility file: writeNodeToFile and parse_node_list *)

node_open == <<"$","n","o","d","e","_","(">>

set_X == <<")"," ","s","e","t"," ","X","_"," ">>

set_Y == <<")"," ","s","e","t"," ","Y","_"," ">>

set_Z == <<")"," ","s","e","t"," ","Z","_"," ">>

setdest_open == <<"$","n","s","_"," ","a","t"," ","0",".","0"," ","\"","$","n","o","d","e","_","(">>

setdest_close == <<")"," ","s","e","t","d","e","s","t"," ","0"," ","0"," ","0",".","0","0","\"","\n">>

newline == <<"\n">>

\* the four f.write calls
NodeBlock(nodeId, x, y, z) ==
    << node_open \o str(nodeId) \o set_X \o str(x) \o newline,
       node_open \o str(nodeId) \o set_Y \o str(y) \o newline,
       node_open \o str(nodeId) \o set_Z \o str(z) \o newline,
       setdest_open \o str(nodeId) \o setdest_close >>

\* mutant: the Y_ and Z_ lines are written in the other order
writeNodeToFile_zy(f, nodeId, x, y, z) ==
    f \o << NodeBlock(nodeId, x, y, z)[1], NodeBlock(nodeId, x, y, z)[3],
            NodeBlock(nodeId, x, y, z)[2], NodeBlock(nodeId, x, y, z)[4] >>

writeNodeToFile(f, nodeId, x, y, z) == f \o NodeBlock(nodeId, x, y, z)

\* Vector(x, y, z) of three strings: float() of each
Vector(x, y, z) == [x |-> float(x), y |-> float(y), z |-> float(z)]

\* an exception left parse_node_list
Raised == [raised |-> TRUE, dict |-> <<>>]

\* coord_dict[id_part] = coords
DictPut(dict, key, value) ==
    [k \in (DOMAIN dict) \cup {key} |-> IF k = key THEN value ELSE dict[k]]

\* The while loop of parse_node_list; count is 1-based here.
RECURSIVE parse_node_loop(_, _, _)
parse_node_loop(lines, count, dict) ==
    IF count > Len(lines) THEN [raised |-> FALSE, dict |-> dict]
    ELSE LET line == Strip(lines[count])
             split_line == Split(line, " ")
         IN  IF Len(split_line) # 4
             THEN parse_node_loop(lines, count + 1, dict)
             ELSE LET id_split == Split(split_line[1], "_")
                  IN  IF Len(id_split) < 2 \/ count + 2 > Len(lines)
                      THEN Raised
                      ELSE LET id_part == Remove(Remove(id_split[2], "("), ")")
                               y_split == Split(lines[count + 1], " ")
                               z_split == Split(lines[count + 2], " ")
                           IN  IF Len(y_split) < 4 \/ Len(z_split) < 4
                               THEN Raised
                               ELSE LET x == Strip(split_line[4])
                                        y == Strip(y_split[4])
                                        z == Strip(z_split[4])
                                    IN  IF ~(is_float(x) /\ is_float(y) /\ is_float(z))
                                        THEN Raised
                                        ELSE parse_node_loop(lines, count + 3,
                                                 DictPut(dict, id_part, Vector(x, y, z)))

\* mutant: the scan starts at the second line
parse_node_list_from_second(lines) == parse_node_loop(lines, 2, <<>>)

parse_node_list(lines) == parse_node_loop(lines, 1, <<>>)

\* Python's None for a path, a name or a string option
None == <<"None">>

\* an exception left find_coords_from_file
LookupRaised == [raised |-> TRUE, is_none |-> FALSE, value |-> <<>>]

\* "return None" of find_coords_from_file
NotFound == [raised |-> FALSE, is_none |-> TRUE, value |-> <<>>]

\* The while loop of find_coords_from_file; count is 1-based here.  The line is
\* split as it is read (no strip), and count goes on by one line at a time.
RECURSIVE find_coords_loop(_, _, _)
find_coords_loop(node_id, lines, count) ==
    IF count > Len(lines) THEN NotFound
    ELSE LET split_line == Split(lines[count], " ")
         IN  IF Len(split_line) # 4
             THEN find_coords_loop(node_id, lines, count + 1)
             ELSE LET id_split == Split(split_line[1], "_")
                  IN  IF Len(id_split) < 2 THEN LookupRaised
                      ELSE IF Remove(Remove(id_split[2], "("), ")") # node_id
                      THEN find_coords_loop(node_id, lines, count + 1)
                      ELSE IF count + 2 > Len(lines) THEN LookupRaised
                      ELSE LET y_split == Split(lines[count + 1], " ")
                               z_split == Split(lines[count + 2], " ")
                           IN  IF Len(y_split) < 4 \/ Len(z_split) < 4
                               THEN LookupRaised
                               ELSE LET x == Strip(split_line[4])
                                        y == Strip(y_split[4])
                                        z == Strip(z_split[4])
                                    IN  IF ~(is_float(x) /\ is_float(y) /\ is_float(z))
                                        THEN LookupRaised
                                        ELSE [raised |-> FALSE, is_none |-> FALSE,
                                              value |-> <<Vector(x, y, z)>>]

\* mutant: the scan starts at the second line
find_coords_from_file_from_second(node_id, lines) ==
    find_coords_loop(str(node_id), lines, 2)

\* find_coords_from_file(node_id, ns2_mobility_file), lines being file.readlines()
find_coords_from_file(node_id, lines) == find_coords_loop(str(node_id), lines, 1)

\* no lookup made (yet)
NoLookup == [node_id |-> -1, result |-> NotFound]

\* the node ids and positions the environment writes
NodeIds == {0, 1, 12}

Positions == {<<100, 100, 100>>, <<125, 100, 100>>, <<-7, 0, 3>>}

blank_line == <<"\n">>

comment_line == <<"#"," ","x"," ","y"," ","z"," ","w","\n">>

\* lines that do not split into 4 tokens
NoiseLines == {blank_line, comment_line}

WrittenIds == {written[i].id : i \in 1..Len(written)}

InitMobility ==
    /\ mobility_file = <<>>
    /\ written = <<>>
    /\ foreign = 0
    /\ coord_dict = [raised |-> FALSE, dict |-> <<>>]
    /\ lookup = NoLookup

\* utils.writeNodeToFile(f, nodeId, x, y, z)
WriteNode ==
    /\ pc = "writing"
    /\ Len(written) < MaxNodes
    /\ \E nodeId \in NodeIds \ WrittenIds, pos \in Positions :
           /\ mobility_file' = writeNodeToFile(mobility_file, nodeId, pos[1], pos[2], pos[3])
           /\ written' = Append(written, [id |-> nodeId, x |-> pos[1], y |-> pos[2], z |-> pos[3]])
    /\ UNCHANGED <<pc, foreign, coord_dict, lookup, path_vars, cell_vars, run_vars, pool_vars, tool_vars>>

\* another producer of the file format: the X_, Y_ and Z_ lines of a node alone
WriteCoords ==
    /\ pc = "writing"
    /\ Len(written) < MaxNodes
    /\ foreign < MaxForeign
    /\ \E nodeId \in NodeIds \ WrittenIds, pos \in Positions :
           /\ mobility_file' = mobility_file
                  \o SubSeq(NodeBlock(nodeId, pos[1], pos[2], pos[3]), 1, 3)
           /\ written' = Append(written, [id |-> nodeId, x |-> pos[1], y |-> pos[2], z |-> pos[3]])
    /\ foreign' = foreign + 1
    /\ UNCHANGED <<pc, coord_dict, lookup, path_vars, cell_vars, run_vars, pool_vars, tool_vars>>

\* a line between two node records that does not split into 4 tokens
WriteNoise ==
    /\ pc = "writing"
    /\ foreign < MaxForeign
    /\ \E line \in NoiseLines : mobility_file' = Append(mobility_file, line)
    /\ foreign' = foreign + 1
    /\ UNCHANGED <<pc, written, coord_dict, lookup, path_vars, cell_vars, run_vars, pool_vars, tool_vars>>

\* one more record for a node that has one already
WriteNodeAgain ==
    /\ pc = "writing"
    /\ Len(written) < MaxNodes
    /\ \E nodeId \in WrittenIds, pos \in Positions :
           /\ mobility_file' = writeNodeToFile(mobility_file, nodeId, pos[1], pos[2], pos[3])
           /\ written' = Append(written, [id |-> nodeId, x |-> pos[1], y |-> pos[2], z |-> pos[3]])
    /\ UNCHANGED <<pc, foreign, coord_dict, lookup, path_vars, cell_vars, run_vars, pool_vars, tool_vars>>

\* find_coords_from_file(node_id, file) and parse_node_list(file) on the same file
CallBothLookups ==
    /\ pc = "writing"
    /\ \E node_id \in NodeIds :
           lookup' = [node_id |-> node_id,
                      result |-> find_coords_from_file(node_id, mobility_file)]
    /\ coord_dict' = parse_node_list(mobility_file)
    /\ pc' = "looked"
    /\ UNCHANGED <<mobility_file, written, foreign, path_vars, cell_vars, run_vars, pool_vars, tool_vars>>

\* coord_dict = parse_node_list(ns2_mobility_file_path)
CallParseNodeList ==
    /\ pc = "writing"
    /\ coord_dict' = parse_node_list(mobility_file)
    /\ pc' = "read"
    /\ UNCHANGED <<mobility_file, written, foreign, lookup, path_vars, cell_vars, run_vars, pool_vars, tool_vars>>

-----------------------------------------------------------------------------
(* The transmission-vector cell: parse_transmission_vector *)

\* Edge(x, y, z) of three strings: int() of each
Edge(x, y, z) == [source |-> int(x), destination |-> int(y), phase |-> int(z)]

\* the for loop over raw_edges; an exception gives raised
RECURSIVE edges_loop(_, _)
edges_loop(raw_edges, acc) ==
    IF raw_edges = <<>> THEN [raised |-> FALSE, edges |-> acc]
    ELSE LET raw_edge == Head(raw_edges)
         IN  IF Len(raw_edge) = 0 THEN edges_loop(Tail(raw_edges), acc)
             ELSE LET after_dash_split == Split(raw_edge, "-")
                  IN  IF Len(after_dash_split) < 2
                      THEN [raised |-> TRUE, edges |-> <<>>]
                      ELSE LET source == after_dash_split[1]
                               after_star_split == Split(after_dash_split[2], "*")
                           IN  IF Len(after_star_split) < 2
                               THEN [raised |-> TRUE, edges |-> <<>>]
                               ELSE LET destination == after_star_split[1]
                                        phase == after_star_split[2]
                                    IN  IF ~(is_int(source) /\ is_int(destination) /\ is_int(phase))
                                        THEN [raised |-> TRUE, edges |-> <<>>]
                                        ELSE edges_loop(Tail(raw_edges),
                                                 Append(acc, Edge(source, destination, phase)))

\* mutant: the edges are collected at the front of the list
parse_transmission_vector_reversed(raw) ==
    LET r == edges_loop(Split(raw, "_"), <<>>)
    IN  [r EXCEPT !.edges = [i \in 1..Len(r.edges) |-> r.edges[Len(r.edges) + 1 - i]]]

parse_transmission_vector(raw) == edges_loop(Split(raw, "_"), <<>>)

\* source-destination*phase, as the simulator writes an edge
EdgeToken(e) ==
    str(e.source) \o <<"-">> \o str(e.destination) \o <<"*">> \o str(e.phase)

\* the edges the environment writes
EdgeChoices ==
    [source : {1, 2}, destination : {2, 3, 10}, phase : {0, 1}]

InitVector ==
    /\ raw_transmission_vector = <<>>
    /\ edges_written = <<>>
    /\ transmission_vector = [raised |-> FALSE, edges |-> <<>>]

\* the simulator appends an edge, joined by an underscore to what precedes it
WriteEdge ==
    /\ pc = "vector"
    /\ Len(edges_written) < MaxEdges
    /\ \E e \in EdgeChoices :
           /\ raw_transmission_vector' =
                  IF \/ raw_transmission_vector = <<>>
                     \/ raw_transmission_vector[Len(raw_transmission_vector)] = "_"
                  THEN raw_transmission_vector \o EdgeToken(e)
                  ELSE raw_transmission_vector \o <<"_">> \o EdgeToken(e)
           /\ edges_written' = Append(edges_written, e)
    /\ UNCHANGED <<pc, transmission_vector, map_vars, path_vars, mobility_vars, run_vars, pool_vars, tool_vars>>

\* a leading, doubled or trailing underscore
WriteUnderscore ==
    /\ pc = "vector"
    /\ Len(Split(raw_transmission_vector, "_")) <= Len(edges_written) + MaxEmpty
    /\ raw_transmission_vector' = Append(raw_transmission_vector, "_")
    /\ UNCHANGED <<pc, edges_written, transmission_vector, map_vars, path_vars, mobility_vars, run_vars, pool_vars, tool_vars>>

\* transmission_vector = parse_transmission_vector(raw_transmission_vector)
CallParseTransmissionVector ==
    /\ pc = "vector"
    /\ transmission_vector' = parse_transmission_vector(raw_transmission_vector)
    /\ pc' = "vector_parsed"
    /\ UNCHANGED <<raw_transmission_vector, edges_written, map_vars, path_vars, mobility_vars, run_vars, pool_vars, tool_vars>>

-----------------------------------------------------------------------------
(* The transmission-map cell: parse_transmission_map *)

\* the inner loop: the non-empty tokens of split_destinations, in order
RECURSIVE non_empty(_)
non_empty(tokens) ==
    IF tokens = <<>> THEN <<>>
    ELSE (IF Len(Head(tokens)) = 0 THEN <<>> ELSE <<Head(tokens)>>)
             \o non_empty(Tail(tokens))

\* the for loop over after_close_curly_remove; an exception gives raised
RECURSIVE map_loop(_, _)
map_loop(segments, map) ==
    IF segments = <<>> THEN [raised |-> FALSE, map |-> map]
    ELSE LET seg == Head(segments)
         IN  IF Len(seg) = 0 THEN map_loop(Tail(segments), map)
             ELSE LET after_open_curly_remove == Split(seg, "{")
                      key_node == Split(after_open_curly_remove[1], ":")[1]
                  IN  IF Len(after_open_curly_remove) < 2
                      THEN [raised |-> TRUE, map |-> <<>>]
                      ELSE LET destinations == after_open_curly_remove[2]
                               split_destinations == Split(destinations, ";")
                           IN  map_loop(Tail(segments),
                                   DictPut(map, key_node, non_empty(split_destinations)))

parse_transmission_map(raw) == map_loop(Split(raw, "}"), <<>>)

\* sender[:qualifier]{receiver;receiver;...}, as the simulator writes an entry
RECURSIVE JoinReceivers(_)
JoinReceivers(receivers) ==
    IF receivers = <<>> THEN <<>>
    ELSE str(Head(receivers)) \o <<";">> \o JoinReceivers(Tail(receivers))

EntryToken(e) ==
    str(e.sender)
        \o (IF e.qualifier < 0 THEN <<>> ELSE <<":">> \o str(e.qualifier))
        \o <<"{">> \o JoinReceivers(e.receivers) \o <<"}">>

\* the entries the environment writes; qualifier -1 stands for no qualifier
EntryChoices ==
    [sender : {1, 10}, qualifier : {-1, 0, 1},
     receivers : {<<>>, <<2>>, <<3, 2>>, <<11, 4>>}]

InitMap ==
    /\ raw_transmission_map = <<>>
    /\ entries_written = <<>>
    /\ transmission_map = [raised |-> FALSE, map |-> <<>>]

\* the simulator appends the entry of one sender
WriteEntry ==
    /\ pc = "map"
    /\ Len(entries_written) < MaxEntries
    /\ \E e \in EntryChoices :
           /\ raw_transmission_map' = raw_transmission_map \o EntryToken(e)
           /\ entries_written' = Append(entries_written, e)
    /\ UNCHANGED <<pc, transmission_map, vector_vars, path_vars, mobility_vars, run_vars, pool_vars, tool_vars>>

\* transmission_map = parse_transmission_map(raw_transmission_map)
CallParseTransmissionMap ==
    /\ pc = "map"
    /\ transmission_map' = parse_transmission_map(raw_transmission_map)
    /\ pc' = "map_parsed"
    /\ UNCHANGED <<raw_transmission_map, entries_written, vector_vars, path_vars, mobility_vars, run_vars, pool_vars, tool_vars>>

-----------------------------------------------------------------------------
(* SimulationConfig, and the state of a script before it runs *)

dot == <<".">>

out == <<"o","u","t">>

\* SimulationConfig.__init__
SimulationConfig ==
    [base_folder        |-> None,
     folder             |-> None,
     base_map_folder    |-> None,
     scenario           |-> None,
     mobility_file      |-> None,
     poly_file          |-> None,
     original_poly_file |-> None,
     circ_radius        |-> 1000,
     output_base        |-> <<dot, out>>,
     force_buildings    |-> FALSE,
     building_mode      |-> None,
     max_files_per_protocol |-> 3]

\* -r/--radius: absent (None), or the int given
NoRadius == [given |-> FALSE, value |-> 0]

\* the namespace before parse_args has run
NoArgs ==
    [file |-> None, folder |-> None, basefolder |-> None, mobility |-> None,
     mapfolder |-> None, poly |-> None, radius |-> NoRadius, maxfiles |-> 3,
     force_buildings |-> FALSE]

\* no tally returned (yet)
NoStats == [processed_count |-> -1, successful_count |-> -1, failed_count |-> -1]

\* no CSV file, no mobility file and no polygon file on disk
InitDisk ==
    /\ files = <<>>
    /\ aux_files = {}

\* a script that has not parsed its arguments yet
InitScript ==
    /\ args = NoArgs
    /\ config = SimulationConfig
    /\ csv_files = <<>>
    /\ scenario_name = None
    /\ processed_count = 0
    /\ successful_count = 0
    /\ calls = <<>>
    /\ images = {}
    /\ stats = NoStats
    /\ exit_status = -1
    /\ skipped = <<>>
    /\ traceback = ""

InitRun == InitDisk /\ InitScript

\* drawAll before main has run: no pool, nothing started
InitPool ==
    /\ task_queue = <<>>
    /\ worker_task = <<>>
    /\ script_runs = <<>>
    /\ script_done = {}
    /\ pool_state = "none"

\* generate_maps_and_jobs before main has run
InitJobsIdle ==
    /\ job_args = [manual |-> FALSE, scenarios |-> <<>>, contention_windows |-> <<>>]
    /\ cw_index = 1
    /\ scenario_index = 1
    /\ area = 0
    /\ run_scenario_calls = <<>>

\* the nine lists of read_csv_from_directory, empty
NoLists ==
    [total_nodes |-> <<>>, nodes_on_circ |-> <<>>, total_coverage |-> <<>>,
     cov_on_circ |-> <<>>, hops |-> <<>>, slots |-> <<>>, message_sent |-> <<>>,
     total_coverage_percent |-> <<>>, cov_on_circ_percent |-> <<>>]

\* graph_utils before read_csv_from_directory has run
InitGraphIdle ==
    /\ listing = <<>>
    /\ file_index = 1
    /\ lists = NoLists
    /\ statistics = <<>>

InitTools == InitJobsIdle /\ InitGraphIdle

-----------------------------------------------------------------------------
(* The program: walk to a directory, then call the detector or the parser *)

NoResult == initial_result(<<>>)

InitPathIdle ==
    /\ base_folder = <<>>
    /\ csv_path = <<>>
    /\ detection_result = NoResult
    /\ redetection = NoResult
    /\ components = NoneComponents

\* the environment: one more directory level below base_folder
Descend ==
    /\ pc = "walking"
    /\ Len(base_folder) < MaxDepth
    /\ \E name \in (IF base_folder = <<>> THEN Roots
                    ELSE Children(base_folder[Len(base_folder)])) :
           base_folder' = Append(base_folder, name)
    /\ UNCHANGED <<pc, csv_path, detection_result, redetection, components, mobility_vars, cell_vars, run_vars, pool_vars, tool_vars>>

\* result = detect_scenario_from_basepath(base_folder)
CallDetect ==
    /\ pc = "walking"
    /\ detection_result' = detect_scenario_from_basepath(base_folder)
    /\ pc' = "detected"
    /\ UNCHANGED <<base_folder, csv_path, redetection, components, mobility_vars, cell_vars, run_vars, pool_vars, tool_vars>>

\* the detector run again, on the scenario_path it returned
CallRedetect ==
    /\ pc = "detected"
    /\ redetection' = detect_scenario_from_basepath(detection_result.scenario_path)
    /\ pc' = "redetected"
    /\ UNCHANGED <<base_folder, csv_path, detection_result, components, mobility_vars, cell_vars, run_vars, pool_vars, tool_vars>>

\* path_info = parse_csv_path_structure(os.path.join(base_folder, filename))
CallParse ==
    /\ pc = "walking"
    /\ \E filename \in FileNames :
           /\ csv_path' = Append(base_folder, filename)
           /\ components' = parse_csv_path_structure(Append(base_folder, filename))
    /\ pc' = "parsed"
    /\ UNCHANGED <<base_folder, detection_result, redetection, mobility_vars, cell_vars, run_vars, pool_vars, tool_vars>>

Init == pc = "walking" /\ InitPathIdle /\ InitMobility /\ InitVector /\ InitMap
        /\ InitRun /\ InitPool /\ InitTools

Next == Descend \/ CallDetect \/ CallRedetect \/ CallParse

Spec == Init /\ [][Next]_vars

InitMobilityFile ==
    pc = "writing" /\ InitPathIdle /\ InitMobility /\ InitVector /\ InitMap
        /\ InitRun /\ InitPool /\ InitTools

NextMobility == WriteNode \/ WriteCoords \/ WriteNoise \/ CallParseNodeList

SpecMobility == InitMobilityFile /\ [][NextMobility]_vars

NextLookup ==
    WriteNode \/ WriteNodeAgain \/ WriteCoords \/ WriteNoise \/ CallBothLookups

SpecLookup == InitMobilityFile /\ [][NextLookup]_vars

InitVectorCell ==
    pc = "vector" /\ InitPathIdle /\ InitMobility /\ InitVector /\ InitMap
        /\ InitRun /\ InitPool /\ InitTools

NextVector == WriteEdge \/ WriteUnderscore \/ CallParseTransmissionVector

SpecVector == InitVectorCell /\ [][NextVector]_vars

InitMapCell ==
    pc = "map" /\ InitPathIdle /\ InitMobility /\ InitVector /\ InitMap
        /\ InitRun /\ InitPool /\ InitTools

NextMap == WriteEntry \/ CallParseTransmissionMap

SpecMap == InitMapCell /\ [][NextMap]_vars

-----------------------------------------------------------------------------
(* The simulation CSV file: csv.DictReader and parse_file *)

\* The columns parse_file converts to numbers, in the order it reads them.  A
\* column name is one piece of a str: its letters are never looked at.
NumericColumns ==
    <<"Actual Range", "Starting x", "Starting y", "Starting node", "Vehicle distance">>

\* the columns parse_file reads as text, in the order it reads them
TextColumns ==
    <<"Received node ids", "Node ids", "Transmission map",
      "Received on circ nodes", "Transmission vector">>

Range(f) == {f[i] : i \in DOMAIN f}

\* str.strip(c) for a one-character c
StripChar(s, c) ==
    LET keep == {i \in 1..Len(s) : s[i] # c}
    IN  IF keep = {} THEN <<>> ELSE SubSeq(s, Min(keep), Max(keep))

\* key.strip().strip('"')
column_key(key) == StripChar(Strip(key), "\"")

\* The cells of the first data row that land under the key name in
\* "row = {key.strip().strip('"'): value for key, value in raw_row.items()}";
\* the last one is the one the dict keeps.
ColumnIndexes(lines, name) ==
    {i \in 1..Len(lines[1]) : column_key(lines[1][i]) = <<name>>}

\* name in row
has_column(lines, name) == ColumnIndexes(lines, name) # {}

\* row[name] is None: DictReader fills the columns a short row lacks with None
is_None(lines, name) == Max(ColumnIndexes(lines, name)) > Len(lines[2])

\* row[name], where it is a str
row_value(lines, name) == lines[2][Max(ColumnIndexes(lines, name))]

\* what "int(row[name])" or "float(row[name])" raises, "" if nothing
numeric_error(lines, name) ==
    IF ~has_column(lines, name) THEN "KeyError"
    ELSE IF is_None(lines, name) THEN "TypeError"
    ELSE IF name \in {"Starting x", "Starting y"}
    THEN (IF is_float(row_value(lines, name)) THEN "" ELSE "ValueError")
    ELSE (IF is_int(row_value(lines, name)) THEN "" ELSE "ValueError")

\* [x for x in raw.split("_") if x]
id_list(raw) == non_empty(Split(raw, "_"))

\* parse_file left by an exception: nothing is returned
ParseError(name) ==
    [raised |-> TRUE, exception |-> name,
     tx_range |-> 0, starting_x |-> 0, starting_y |-> 0, starting_vehicle |-> 0,
     vehicle_distance |-> 0, transmission_map |-> <<>>,
     received_on_circ_ids |-> <<>>, transmission_vector |-> <<>>, node_ids |-> <<>>]

\* the tuple parse_file returns (the coordinate lists, looked up in the
\* mobility file, are not part of this record)
parse_file_row(lines) ==
    [raised |-> FALSE, exception |-> "",
     tx_range             |-> int(row_value(lines, "Actual Range")),
     starting_x           |-> float(row_value(lines, "Starting x")),
     starting_y           |-> float(row_value(lines, "Starting y")),
     starting_vehicle     |-> int(row_value(lines, "Starting node")),
     vehicle_distance     |-> int(row_value(lines, "Vehicle distance")),
     transmission_map     |-> parse_transmission_map(row_value(lines, "Transmission map")).map,
     received_on_circ_ids |-> id_list(row_value(lines, "Received on circ nodes")),
     transmission_vector  |->
         parse_transmission_vector(row_value(lines, "Transmission vector")).edges,
     node_ids             |-> id_list(row_value(lines, "Node ids"))]

\* a column that is missing or does not convert is read as 0 or ""
parse_lenient_lines(lines) ==
    LET number(name) ==
            IF numeric_error(lines, name) = ""
            THEN (IF name \in {"Starting x", "Starting y"}
                  THEN float(row_value(lines, name)) ELSE int(row_value(lines, name)))
            ELSE 0
        text(name) ==
            IF has_column(lines, name) /\ ~is_None(lines, name)
            THEN row_value(lines, name) ELSE <<>>
    IN  IF Len(lines) < 2 THEN ParseError("StopIteration")
        ELSE [raised |-> FALSE, exception |-> "",
              tx_range             |-> number("Actual Range"),
              starting_x           |-> number("Starting x"),
              starting_y           |-> number("Starting y"),
              starting_vehicle     |-> number("Starting node"),
              vehicle_distance     |-> number("Vehicle distance"),
              transmission_map     |-> parse_transmission_map(text("Transmission map")).map,
              received_on_circ_ids |-> id_list(text("Received on circ nodes")),
              transmission_vector  |->
                  parse_transmission_vector(text("Transmission vector")).edges,
              node_ids             |-> id_list(text("Node ids"))]

\* the body of parse_file, lines being what the file holds: the header line
\* and the data rows, each as the cells csv.reader yields
parse_file_lines(lines) ==
    IF Len(lines) < 2 THEN ParseError("StopIteration")            \* next(csv_reader)
    ELSE IF Len(lines[2]) > Len(lines[1]) THEN ParseError("AttributeError") \* None.strip()
    ELSE LET numeric == {i \in 1..Len(NumericColumns) :
                            numeric_error(lines, NumericColumns[i]) # ""}
             absent  == {i \in 1..Len(TextColumns) : ~has_column(lines, TextColumns[i])}
             nones   == {i \in 1..Len(TextColumns) : is_None(lines, TextColumns[i])}
         IN  IF numeric # {} THEN ParseError(numeric_error(lines, NumericColumns[Min(numeric)]))
             ELSE IF absent # {} THEN ParseError("KeyError")
             ELSE IF nones # {} THEN ParseError("AttributeError")   \* None.split("_")
             ELSE IF parse_transmission_map(row_value(lines, "Transmission map")).raised
             THEN ParseError("IndexError")
             ELSE IF parse_transmission_vector(row_value(lines, "Transmission vector")).raised
             THEN ParseError("IndexError or ValueError")
             ELSE parse_file_row(lines)

\* mutant: parse_file fills in what it cannot read instead of raising
parse_file_lenient(file_path) ==
    IF file_path \notin DOMAIN files THEN ParseError("FileNotFoundError")
    ELSE parse_lenient_lines(files[file_path])

\* parse_file(file_path, ns2_mobility_file): open(file_path) and the body
parse_file(file_path) ==
    IF file_path \notin DOMAIN files THEN ParseError("FileNotFoundError")
    ELSE parse_file_lines(files[file_path])

-----------------------------------------------------------------------------
(* The result tree of the simulations, as the drivers find it on disk *)

Grid_300 == <<"G","r","i","d","-","3","0","0">>

misc == <<"m","i","s","c">>

maps == <<"m","a","p","s">>

run2_csv == <<"r","u","n","2",".","c","s","v">>

\* a protocol directory of the convention, with the cw level, buildings off
GridRoff == <<root, home, Grid_300, b0, e0, r300, j0, cw_32_1024, ROFF>>

\* a protocol directory of the convention, without the cw level, buildings on
GridB1 == <<root, home, Grid_300, b1, e0, r300, j0, ROFF>>

\* the same protocol directory as GridRoff, of another scenario
PadovaRoff == <<root, home, Padova_25, b0, e0, r300, j0, cw_32_1024, ROFF>>

\* a directory outside the convention, too shallow for the positional fallback
Misc == <<root, home, misc>>

\* a directory outside the convention, deep enough for the positional fallback
Deep == <<root, home, Run_2, gsl_extra, gsl_extra, gsl_extra, gsl_extra>>

\* the places where a CSV file may lie, in the order os.walk(/home) and the
\* directory listings yield them (the files of one directory in name order)
WalkOrder ==
    << Append(GridRoff, run1_csv), Append(GridRoff, run2_csv),
       Append(GridB1, run1_csv), Append(PadovaRoff, run1_csv),
       Append(Misc, run1_csv), Append(Deep, run1_csv) >>

\* os.path.dirname of a path with at least two segments
dirname(path) == SubSeq(path, 1, Len(path) - 1)

IsPrefix(p, q) == Len(p) <= Len(q) /\ SubSeq(q, 1, Len(p)) = p

\* the directories that exist: those of the tree, whether or not a file is in them
Directories ==
    UNION {{SubSeq(WalkOrder[i], 1, k) : k \in 2..(Len(WalkOrder[i]) - 1)} :
               i \in 1..Len(WalkOrder)}

-----------------------------------------------------------------------------
(* The renderers: plot_coverage and plot_single_hops *)

\* os.path.exists(path)
path_exists(path) ==
    path \in aux_files \/ path \in Directories \/ path \in DOMAIN files

dash_hop == <<"-","h","o","p">>

dot_png == <<".","p","n","g">>

\* f"{output_file_path}-hop{hop + 1}.png"
hop_output_path(output_file_path, hop) ==
    [output_file_path EXCEPT
        ![Len(output_file_path)] = @ \o dash_hop \o str(hop + 1) \o dot_png]

\* What a call of a plot function did: the value it returned or the exception
\* that left it, whether it called parse_file and with what result, the images
\* it saved and whether it drew the buildings.  Creating the output directory
\* and saving a figure are taken to succeed.
Outcome(returned, exception, parse_called, parse, saved, buildings) ==
    [returned |-> returned, raised |-> exception, parse_called |-> parse_called,
     parse |-> parse, saved |-> saved, buildings |-> buildings]

\* "if config.poly_file and os.path.exists(config.poly_file)"
plots_buildings(cfg) == cfg.poly_file # None /\ path_exists(cfg.poly_file)

\* "if not config.mobility_file or not os.path.exists(config.mobility_file)"
mobility_missing(cfg) == cfg.mobility_file = None \/ ~path_exists(cfg.mobility_file)

plot_coverage(csv_file_path, output_file_path, cfg) ==
    IF mobility_missing(cfg)
    THEN Outcome(FALSE, "", FALSE, ParseError(""), {}, FALSE)
    ELSE LET parse == parse_file(csv_file_path)
         IN  IF parse.raised
             THEN Outcome(FALSE, "", TRUE, parse, {}, FALSE)
             ELSE Outcome(TRUE, "", TRUE, parse, {output_file_path}, plots_buildings(cfg))

\* max(map(lambda edge: edge.phase, transmission_vector)), of a non-empty list
find_max_hop(edges) == Max({edges[i].phase : i \in 1..Len(edges)})

plot_single_hops(csv_file_path, output_file_path, cfg) ==
    IF mobility_missing(cfg)
    THEN Outcome(FALSE, "", FALSE, ParseError(""), {}, FALSE)
    ELSE LET parse == parse_file(csv_file_path)
         IN  IF parse.raised
             THEN Outcome(FALSE, "", TRUE, parse, {}, FALSE)
             ELSE IF parse.transmission_vector = <<>>
             THEN Outcome(FALSE, "ValueError", TRUE, parse, {}, FALSE)  \* max() of nothing
             ELSE Outcome(TRUE, "", TRUE, parse,
                      {hop_output_path(output_file_path, hop) :
                           hop \in 0..find_max_hop(parse.transmission_vector)},
                      plots_buildings(cfg))

\* the plot functions the scripts inject into the drivers
PlotFunctions == {"plot_coverage", "plot_single_hops"}

\* plot_function(csv_file_path, output_file_path, config)
call_plot(plot_function, csv_file_path, output_file_path, cfg) ==
    IF plot_function = "plot_coverage"
    THEN plot_coverage(csv_file_path, output_file_path, cfg)
    ELSE plot_single_hops(csv_file_path, output_file_path, cfg)

\* the record kept of a call
Call(plot_function, csv_file_path, output_file_path, cfg) ==
    [plot_function |-> plot_function, csv_path |-> csv_file_path,
     output_path |-> output_file_path, config |-> cfg,
     outcome |-> call_plot(plot_function, csv_file_path, output_file_path, cfg)]

-----------------------------------------------------------------------------
(* The program: the simulator writes a CSV file, then a renderer is called *)

AllColumns == NumericColumns \o TextColumns

\* the header as the simulator writes it
FullHeader == [i \in 1..Len(AllColumns) |-> <<AllColumns[i]>>]

\* the header with a blank after each comma and the names in double quotes
QuotedHeader == [i \in 1..Len(AllColumns) |-> <<" ", "\"", AllColumns[i], "\"">>]

\* the header without its k-th column
WithoutColumn(k) ==
    [i \in 1..(Len(AllColumns) - 1) |-> FullHeader[IF i < k THEN i ELSE i + 1]]

HeaderChoices ==
    {FullHeader, QuotedHeader} \cup {WithoutColumn(k) : k \in 1..Len(AllColumns)}

\* the cells of a well-formed data row
good_value(name) ==
    CASE name = "Actual Range"           -> <<"3","0","0">>
      [] name = "Starting x"             -> <<"1","0","0">>
      [] name = "Starting y"             -> <<"1","2","5">>
      [] name = "Starting node"          -> <<"0">>
      [] name = "Vehicle distance"       -> <<"2","5">>
      [] name = "Received node ids"      -> <<"0","_","1">>
      [] name = "Node ids"               -> <<"0","_","1","_","1","2">>
      [] name = "Transmission map"       ->
             EntryToken([sender |-> 0, qualifier |-> -1, receivers |-> <<1>>])
      [] name = "Received on circ nodes" -> <<"1">>
      [] name = "Transmission vector"    ->
             EdgeToken([source |-> 0, destination |-> 1, phase |-> 1])

GoodRow == [name \in Range(AllColumns) |-> good_value(name)]

\* cells that are no number
BadValues == {<<"a","b","c">>, <<>>}

\* a well-formed row, one with a single bad number, one without any edge
RowValues ==
    {GoodRow}
        \cup {[GoodRow EXCEPT ![name] = v] : name \in Range(NumericColumns), v \in BadValues}
        \cup {[GoodRow EXCEPT !["Transmission vector"] = <<>>]}

\* the values laid out under the columns of the header
Layout(header, values) ==
    [i \in 1..Len(header) |-> values[column_key(header[i])[1]]]

\* the data rows that may follow a header: as many cells as the header has
\* columns, or one less, or one more
RowChoices(header) ==
    {Layout(header, values) : values \in RowValues}
        \cup {SubSeq(Layout(header, GoodRow), 1, Len(header) - 1),
              Append(Layout(header, GoodRow), <<"x">>)}

mob_xml == <<"m","o","b",".","x","m","l">>

poly_xml == <<"p","o","l","y",".","x","m","l">>

run1_png == <<"r","u","n","1",".","p","n","g">>

\* the file the simulator writes and the image asked for
SimulationCsv == <<root, home, run1_csv>>

SimulationPng == <<dot, out, run1_png>>

\* the mobility and polygon files named on the command line
GivenMobility == <<root, home, mob_xml>>

GivenPoly == <<root, home, poly_xml>>

InitCsv ==
    /\ pc = "csv"
    /\ InitPathIdle /\ InitMobility /\ InitVector /\ InitMap
    /\ files = <<>>
    /\ aux_files = {GivenMobility}
    /\ InitScript /\ InitPool /\ InitTools

\* the simulator opens its output file
CreateCsv ==
    /\ pc = "csv"
    /\ SimulationCsv \notin DOMAIN files
    /\ files' = DictPut(files, SimulationCsv, <<>>)
    /\ UNCHANGED <<pc, aux_files, args, config, csv_files, scenario_name, processed_count,
                   successful_count, calls, images, stats, exit_status, skipped, traceback,
                   path_vars, mobility_vars, cell_vars, pool_vars, tool_vars>>

\* the simulator writes the header line
WriteHeader ==
    /\ pc = "csv"
    /\ SimulationCsv \in DOMAIN files
    /\ files[SimulationCsv] = <<>>
    /\ \E header \in HeaderChoices :
           files' = [files EXCEPT ![SimulationCsv] = <<header>>]
    /\ UNCHANGED <<pc, aux_files, args, config, csv_files, scenario_name, processed_count,
                   successful_count, calls, images, stats, exit_status, skipped, traceback,
                   path_vars, mobility_vars, cell_vars, pool_vars, tool_vars>>

\* the simulator writes a data row
WriteRow ==
    /\ pc = "csv"
    /\ SimulationCsv \in DOMAIN files
    /\ Len(files[SimulationCsv]) \in 1..MaxRows
    /\ \E row \in RowChoices(files[SimulationCsv][1]) :
           files' = [files EXCEPT ![SimulationCsv] = Append(@, row)]
    /\ UNCHANGED <<pc, aux_files, args, config, csv_files, scenario_name, processed_count,
                   successful_count, calls, images, stats, exit_status, skipped, traceback,
                   path_vars, mobility_vars, cell_vars, pool_vars, tool_vars>>

\* plot_function(csv_file_path, output_file_path, config)
CallPlot ==
    /\ pc = "csv"
    /\ \E plot_function \in PlotFunctions, mobility \in {None, GivenMobility} :
           LET cfg == [SimulationConfig EXCEPT !.mobility_file = mobility]
               call == Call(plot_function, SimulationCsv, SimulationPng, cfg)
           IN  /\ calls' = Append(calls, call)
               /\ images' = images \cup call.outcome.saved
    /\ pc' = "plotted"
    /\ UNCHANGED <<files, aux_files, args, config, csv_files, scenario_name,
                   processed_count, successful_count, stats, exit_status, skipped, traceback,
                   path_vars, mobility_vars, cell_vars, pool_vars, tool_vars>>

NextCsv == CreateCsv \/ WriteHeader \/ WriteRow \/ CallPlot

SpecCsv == InitCsv /\ [][NextCsv]_vars

-----------------------------------------------------------------------------
(* SimulationConfig methods and the default radius *)

\* needle in s
Contains(s, needle) ==
    \E i \in 0..(Len(s) - Len(needle)) : SubSeq(s, i + 1, i + Len(needle)) = needle

UpperLetters == <<"A","B","C","D","E","F","G","H","I","J","K","L","M",
                  "N","O","P","Q","R","S","T","U","V","W","X","Y","Z">>

LowerLetters == <<"a","b","c","d","e","f","g","h","i","j","k","l","m",
                  "n","o","p","q","r","s","t","u","v","w","x","y","z">>

\* str.lower()
lower(s) ==
    [i \in 1..Len(s) |->
        IF s[i] \in UpperCase
        THEN LowerLetters[CHOOSE k \in 1..Len(UpperLetters) : UpperLetters[k] = s[i]]
        ELSE s[i]]

Grid == <<"G","r","i","d">>

determine_default_radius(name) ==
    IF name # None /\ name # <<>> /\ Contains(name, Grid) THEN 2000 ELSE 1000

ns2mobility_xml == <<".","n","s","2","m","o","b","i","l","i","t","y",".","x","m","l">>

dot_poly_xml == <<".","p","o","l","y",".","x","m","l">>

\* config.set_paths_from_scenario(base_map_folder, scenario)
set_paths_from_scenario(cfg, base_map_folder, scenario) ==
    [cfg EXCEPT
        !.base_map_folder    = base_map_folder,
        !.scenario           = scenario,
        !.mobility_file      = base_map_folder \o <<scenario, scenario \o ns2mobility_xml>>,
        !.original_poly_file = base_map_folder \o <<scenario, scenario \o dot_poly_xml>>,
        !.poly_file          = base_map_folder \o <<scenario, scenario \o dot_poly_xml>>]

\* mutant: --force-buildings is not looked at
configure_buildings_ignores_force(cfg, building_mode, filename) ==
    LET in_filename(mode) ==
            filename # None /\ filename # <<>> /\ Contains(lower(filename), mode)
    IN  [cfg EXCEPT
            !.building_mode = building_mode,
            !.poly_file =
                IF building_mode = b0 \/ in_filename(b0) THEN None
                ELSE IF building_mode = b1 \/ in_filename(b1)
                THEN cfg.original_poly_file
                ELSE @]

\* config.configure_buildings(building_mode, filename, verbose)
configure_buildings(cfg, building_mode, filename) ==
    LET in_filename(mode) ==
            filename # None /\ filename # <<>> /\ Contains(lower(filename), mode)
        should_disable_buildings == building_mode = b0 \/ in_filename(b0)
    IN  [cfg EXCEPT
            !.building_mode = building_mode,
            !.poly_file =
                IF should_disable_buildings /\ ~cfg.force_buildings THEN None
                ELSE IF cfg.force_buildings /\ cfg.original_poly_file # None
                THEN cfg.original_poly_file
                ELSE IF building_mode = b1 \/ in_filename(b1)
                THEN cfg.original_poly_file
                ELSE @]

\* mutant: a missing polygon file is an error like a missing mobility file
validate_paths_strict(cfg) ==
    [errors |->
        (IF cfg.mobility_file # None /\ ~path_exists(cfg.mobility_file)
         THEN <<"Mobility file not found">> ELSE <<>>)
        \o (IF cfg.poly_file # None /\ ~path_exists(cfg.poly_file)
            THEN <<"Poly file not found">> ELSE <<>>),
     config |-> cfg]

\* errors = config.validate_paths(): the list returned, and config as it is left
validate_paths(cfg) ==
    [errors |->
        (IF cfg.mobility_file # None /\ ~path_exists(cfg.mobility_file)
         THEN <<"Mobility file not found">> ELSE <<>>)
        \o (IF cfg.base_folder # None /\ ~path_exists(cfg.base_folder)
            THEN <<"Base folder not found">> ELSE <<>>)
        \o (IF cfg.folder # None /\ ~path_exists(cfg.folder)
            THEN <<"Folder not found">> ELSE <<>>),
     config |->
        IF cfg.poly_file # None /\ ~path_exists(cfg.poly_file)
        THEN [cfg EXCEPT !.poly_file = None] ELSE cfg]

-----------------------------------------------------------------------------
(* is_file_complete, find_csv_files, find_csv_files_in_folder *)

\* is_file_complete(file_path), lines being what the file holds: "i" is never
\* bound when the file has no line, and "return i == 1" raises UnboundLocalError
is_file_complete(lines) ==
    [raised |-> Len(lines) = 0, value |-> Len(lines) - 1 = 1]

\* the dict parse_csv_path_structure returns, with its "csv_path" entry
FileInfo(path) == parse_csv_path_structure(path) @@ [csv_path |-> path]

\* the dict find_csv_files_in_folder makes up when the path does not parse
UnknownInfo(path) ==
    [is_none |-> FALSE, scenario |-> unknown, building |-> unknown,
     error_rate |-> unknown, txRange |-> unknown, junction |-> unknown,
     cw |-> unknown, protocol |-> unknown,
     csv_filename |-> basename(path), csv_path |-> path]

\* The loops of find_csv_files over the files os.walk yields: the count starts
\* again in each directory, and "break" leaves the rest of a directory alone.
RECURSIVE find_loop(_, _, _, _, _)
find_loop(paths, max_files_per_protocol, found, current_root, protocol_file_count) ==
    IF paths = <<>> THEN [raised |-> FALSE, csv_files |-> found]
    ELSE LET path == Head(paths)
             count == IF dirname(path) = current_root THEN protocol_file_count ELSE 0
         IN  IF ~EndsWith(basename(path), dot_csv) \/ count >= max_files_per_protocol
             THEN find_loop(Tail(paths), max_files_per_protocol, found,
                            dirname(path), count)
             ELSE IF is_file_complete(files[path]).raised
             THEN [raised |-> TRUE, csv_files |-> <<>>]
             ELSE IF ~is_file_complete(files[path]).value
             THEN find_loop(Tail(paths), max_files_per_protocol, found,
                            dirname(path), count)
             ELSE IF parse_csv_path_structure(path).is_none
             THEN find_loop(Tail(paths), max_files_per_protocol, found,
                            dirname(path), count)
             ELSE find_loop(Tail(paths), max_files_per_protocol,
                            Append(found, FileInfo(path)), dirname(path), count + 1)

\* mutant: a file that is_file_complete rejects is listed all the same
find_csv_files_lists_incomplete(folder, max_files_per_protocol) ==
    [raised |-> FALSE,
     csv_files |->
        LET under == SelectSeq(WalkOrder, LAMBDA path :
                         /\ path \in DOMAIN files
                         /\ IsPrefix(folder, path)
                         /\ ~parse_csv_path_structure(path).is_none)
        IN  [i \in 1..Len(under) |-> FileInfo(under[i])]]

\* find_csv_files(base_folder, max_files_per_protocol)
find_csv_files(folder, max_files_per_protocol) ==
    IF ~path_exists(folder) THEN [raised |-> FALSE, csv_files |-> <<>>]
    ELSE find_loop(SelectSeq(WalkOrder, LAMBDA path :
                       path \in DOMAIN files /\ IsPrefix(folder, path)),
                   max_files_per_protocol, <<>>, <<>>, 0)

\* the loop of find_csv_files_in_folder over sorted(files)
RECURSIVE folder_loop(_, _, _)
folder_loop(paths, max_files, found) ==
    IF paths = <<>> THEN [raised |-> FALSE, csv_files |-> found]
    ELSE LET path == Head(paths)
         IN  IF ~EndsWith(basename(path), dot_csv)
             THEN folder_loop(Tail(paths), max_files, found)
             ELSE IF Len(found) >= max_files
             THEN [raised |-> FALSE, csv_files |-> found]
             ELSE IF is_file_complete(files[path]).raised
             THEN [raised |-> TRUE, csv_files |-> <<>>]
             ELSE IF ~is_file_complete(files[path]).value
             THEN folder_loop(Tail(paths), max_files, found)
             ELSE folder_loop(Tail(paths), max_files,
                      Append(found, IF parse_csv_path_structure(path).is_none
                                    THEN UnknownInfo(path) ELSE FileInfo(path)))

\* mutant: a file whose path does not parse is left out, as find_csv_files does
find_csv_files_in_folder_drops(folder_path, max_files) ==
    IF ~path_exists(folder_path) THEN [raised |-> FALSE, csv_files |-> <<>>]
    ELSE find_loop(SelectSeq(WalkOrder, LAMBDA path :
                       path \in DOMAIN files /\ dirname(path) = folder_path),
                   max_files, <<>>, <<>>, 0)

\* find_csv_files_in_folder(folder_path, max_files)
find_csv_files_in_folder(folder_path, max_files) ==
    IF ~path_exists(folder_path) THEN [raised |-> FALSE, csv_files |-> <<>>]
    ELSE folder_loop(SelectSeq(WalkOrder, LAMBDA path :
                         path \in DOMAIN files /\ dirname(path) = folder_path),
                     max_files, <<>>)

-----------------------------------------------------------------------------
(* generate_output_path *)

\* os.path.splitext(name)[0]
splitext_root(name) ==
    LET dots == {i \in 2..Len(name) : name[i] = "."}
    IN  IF dots = {} THEN name ELSE SubSeq(name, 1, Max(dots) - 1)

generate_output_path(path_info, output_base, suffix, output_subfolder) ==
    LET filename_no_ext == splitext_root(path_info.csv_filename)
        output_filename == filename_no_ext \o suffix \o dot_png
    IN  output_base
            \o <<path_info.scenario, path_info.building, path_info.error_rate,
                 path_info.txRange, path_info.junction>>
            \o (IF path_info.cw # none THEN <<path_info.cw>> ELSE <<>>)
            \o <<path_info.protocol, filename_no_ext, output_subfolder, output_filename>>

-----------------------------------------------------------------------------
(* The command line of a drawing script and process_common_arguments *)

MaxFiles == 2      \* CSV files the simulator has left on disk when a script runs

\* what a CSV file on disk may hold
EmptyFile == <<>>

HeaderOnly == <<FullHeader>>

GoodFile == <<FullHeader, Layout(FullHeader, GoodRow)>>

BadNumber ==
    <<FullHeader, Layout(FullHeader, [GoodRow EXCEPT !["Actual Range"] = <<"a","b","c">>])>>

NoEdges ==
    <<FullHeader, Layout(FullHeader, [GoodRow EXCEPT !["Transmission vector"] = <<>>])>>

\* the simulator is interrupted, or writes bad values, in one protocol directory
FileChoices(path) ==
    IF dirname(path) = GridRoff
    THEN {EmptyFile, HeaderOnly, GoodFile, BadNumber, NoEdges}
    ELSE {GoodFile}

\* the folder given with --mapfolder, and its files for the Grid-300 scenario
MapFolder == <<root, home, maps>>

MapMobility == MapFolder \o <<Grid_300, Grid_300 \o ns2mobility_xml>>

MapPoly == MapFolder \o <<Grid_300, Grid_300 \o dot_poly_xml>>

\* the mobility files exist, the polygon files may be missing
AuxChoices ==
    {{GivenMobility, MapMobility}, {GivenMobility, MapMobility, GivenPoly, MapPoly}}

hops == <<"h","o","p","s">>

singlefileHops == <<"s","i","n","g","l","e","f","i","l","e","H","o","p","s">>

\* DEFAULT_BASE_MAP_FOLDER = "../../../maps"
DEFAULT_BASE_MAP_FOLDER == <<<<".",".">>, <<".",".">>, <<".",".">>, maps>>

\* script_config of draw_single_hops.main
script_config ==
    [plot_function |-> "plot_single_hops", output_subfolder |-> hops,
     single_output_subfolder |-> singlefileHops,
     default_base_map_folder |-> DEFAULT_BASE_MAP_FOLDER]

\* -f, -d or -b with its operand
InputChoices ==
    {[NoArgs EXCEPT !.file = t] : t \in {Append(GridRoff, run1_csv), Append(Misc, run1_csv)}}
        \cup {[NoArgs EXCEPT !.folder = t] : t \in {GridRoff, Misc, Deep}}
        \cup {[NoArgs EXCEPT !.basefolder = t] :
                  t \in {<<root, home>>, <<root, home, Grid_300>>, GridRoff}}

\* -m, with or without -p, or --mapfolder
SourceChoices(a) ==
    {[a EXCEPT !.mobility = GivenMobility, !.poly = p] : p \in {None, GivenPoly}}
        \cup {[a EXCEPT !.mapfolder = MapFolder]}

\* without -r, or (on the command lines with -m alone) with -r 500
RadiusChoices(a) ==
    {a} \cup (IF a.mobility # None /\ a.poly = None
              THEN {[a EXCEPT !.radius = [given |-> TRUE, value |-> 500]]}
              ELSE {})

\* the namespaces parse_args returns for the command lines it accepts
CommandLines ==
    UNION {UNION {RadiusChoices(b) : b \in SourceChoices(a)} : a \in InputChoices}

process_common_arguments(a) ==
    LET path_info == parse_csv_path_structure(a.file)
        detection == detect_scenario_from_basepath(a.basefolder)
        name ==
            IF a.file # None
            THEN (IF ~path_info.is_none THEN path_info.scenario ELSE None)
            ELSE IF a.folder # None THEN basename(a.folder)
            ELSE IF a.basefolder # None
            THEN (IF detection.structure_valid THEN detection.scenario_name
                  ELSE basename(a.basefolder))
            ELSE None
        cfg ==
            [SimulationConfig EXCEPT
                !.circ_radius = IF a.radius.given THEN a.radius.value
                                ELSE determine_default_radius(name),
                !.base_folder = a.basefolder,
                !.folder = a.folder,
                !.base_map_folder = a.mapfolder,
                !.force_buildings = a.force_buildings,
                !.max_files_per_protocol = a.maxfiles,
                !.mobility_file = IF a.mobility # None THEN a.mobility ELSE @,
                !.poly_file = IF a.poly # None THEN a.poly ELSE @,
                !.original_poly_file = IF a.poly # None THEN a.poly ELSE @]
    IN  IF a.mapfolder # None /\ a.file # None /\ ~path_info.is_none
        THEN configure_buildings(
                 set_paths_from_scenario(cfg, a.mapfolder, path_info.scenario),
                 path_info.building, path_info.csv_filename)
        ELSE cfg

\* config as generic_main holds it when it chooses the mode
main_config(a) ==
    LET cfg == process_common_arguments(a)
    IN  IF cfg.base_map_folder = None /\ a.mobility = None
        THEN [cfg EXCEPT !.base_map_folder = script_config.default_base_map_folder]
        ELSE cfg

\* the tally a driver returns
Stats(processed, successful) ==
    [processed_count |-> processed, successful_count |-> successful,
     failed_count |-> processed - successful]

-----------------------------------------------------------------------------
(* The program: a drawing script run on the files the simulator left *)

InitScriptRun ==
    /\ pc = "setup"
    /\ InitPathIdle /\ InitMobility /\ InitVector /\ InitMap
    /\ files = <<>>
    /\ aux_files \in AuxChoices
    /\ InitScript /\ InitPool /\ InitTools

\* the simulator leaves one more CSV file
SimulatorWrites ==
    /\ pc = "setup"
    /\ Cardinality(DOMAIN files) < MaxFiles
    /\ \E i \in 1..Len(WalkOrder) :
           /\ WalkOrder[i] \notin DOMAIN files
           /\ \E lines \in FileChoices(WalkOrder[i]) :
                  files' = DictPut(files, WalkOrder[i], lines)
    /\ UNCHANGED <<pc, aux_files, args, config, csv_files, scenario_name, processed_count,
                   successful_count, calls, images, stats, exit_status, skipped, traceback,
                   path_vars, mobility_vars, cell_vars, pool_vars, tool_vars>>

\* parser.parse_args() rejects the command line (a required group is missing, both
\* options of a group are given, or an operand is no int): parser.error exits with 2
ArgumentError ==
    /\ pc = "setup"
    /\ pc' = "exited"
    /\ exit_status' = 2
    /\ UNCHANGED <<files, aux_files, args, config, csv_files, scenario_name,
                   processed_count, successful_count, calls, images, stats,
                   skipped, traceback,
                   path_vars, mobility_vars, cell_vars, pool_vars, tool_vars>>

\* generic_main up to "Determine mode of operation"
ParseArguments ==
    /\ pc = "setup"
    /\ \E a \in CommandLines :
           /\ args' = a
           /\ config' = main_config(a)
    /\ pc' = "main"
    /\ UNCHANGED <<files, aux_files, csv_files, scenario_name, processed_count,
                   successful_count, calls, images, stats, exit_status, skipped, traceback,
                   path_vars, mobility_vars, cell_vars, pool_vars, tool_vars>>

\* an exception nobody catches leaves generic_main: traceback, exit status 1
Uncaught(exception) ==
    /\ traceback' = exception
    /\ exit_status' = 1
    /\ pc' = "raised"

\* generic_process_single_file: the output path when none is given
single_output_path(csv_file, cfg) ==
    LET path_info == parse_csv_path_structure(csv_file)
    IN  IF ~path_info.is_none
        THEN generate_output_path(path_info, cfg.output_base, <<>>,
                                  script_config.output_subfolder)
        ELSE cfg.output_base
                 \o <<script_config.single_output_subfolder,
                      splitext_root(basename(csv_file)) \o dot_png>>

\* hasattr(config, "building_mode"): the attribute exists on every object that
\* SimulationConfig.__init__ has built
hasattr_building_mode(cfg) == "building_mode" \in DOMAIN cfg

\* "Configure buildings if not already done" in generic_process_single_file
single_file_buildings(csv_file, cfg) ==
    LET path_info == parse_csv_path_structure(csv_file)
    IN  IF ~path_info.is_none /\ ~hasattr_building_mode(cfg)
        THEN configure_buildings(cfg, path_info.building, path_info.csv_filename)
        ELSE cfg

\* the branch "if args.file" of generic_main: generic_process_single_file, then
\* sys.exit(1) if it returned False
RunSingleFile ==
    /\ pc = "main"
    /\ args.file # None
    /\ IF ~path_exists(args.file)
       THEN /\ exit_status' = 1 /\ pc' = "exited"
            /\ UNCHANGED <<config, calls, images, traceback>>
       ELSE IF is_file_complete(files[args.file]).raised
       THEN /\ Uncaught("UnboundLocalError")
            /\ UNCHANGED <<config, calls, images>>
       ELSE IF ~is_file_complete(files[args.file]).value
       THEN /\ exit_status' = 1 /\ pc' = "exited"
            /\ UNCHANGED <<config, calls, images, traceback>>
       ELSE LET cfg == single_file_buildings(args.file, config)
                call == Call(script_config.plot_function, args.file,
                             single_output_path(args.file, cfg), cfg)
            IN  /\ config' = cfg
                /\ calls' = Append(calls, call)
                /\ images' = images \cup call.outcome.saved
                /\ IF call.outcome.raised # ""
                   THEN Uncaught(call.outcome.raised)
                   ELSE /\ exit_status' = IF call.outcome.returned THEN 0 ELSE 1
                        /\ pc' = "exited"
                        /\ UNCHANGED traceback
    /\ UNCHANGED <<files, aux_files, args, csv_files, scenario_name,
                   processed_count, successful_count, stats, skipped,
                   path_vars, mobility_vars, cell_vars, pool_vars, tool_vars>>

\* "for file_info in csv_files: if file_info["scenario"] != "unknown": ... break"
first_scenario(found) ==
    LET known == {i \in 1..Len(found) : found[i].scenario # unknown}
    IN  IF known = {} THEN None ELSE found[Min(known)].scenario

\* the branch "elif args.folder" of generic_main and generic_process_folder up
\* to its loop
FolderDiscover ==
    /\ pc = "main"
    /\ args.folder # None
    /\ IF config.base_map_folder = None /\ config.mobility_file = None
       THEN /\ exit_status' = 2 /\ pc' = "exited"
            /\ UNCHANGED <<config, csv_files, scenario_name, stats, traceback>>
       ELSE LET result == find_csv_files_in_folder(config.folder,
                                                   config.max_files_per_protocol)
                name == IF first_scenario(result.csv_files) # None
                        THEN first_scenario(result.csv_files)
                        ELSE basename(config.folder)
            IN  IF result.raised
                THEN /\ Uncaught("UnboundLocalError")
                     /\ UNCHANGED <<config, csv_files, scenario_name, stats>>
                ELSE IF result.csv_files = <<>>
                THEN /\ stats' = Stats(0, 0) /\ pc' = "returned"
                     /\ UNCHANGED <<config, csv_files, scenario_name, exit_status,
                                    traceback>>
                ELSE /\ csv_files' = result.csv_files
                     /\ scenario_name' = name
                     /\ config' = IF config.base_map_folder # None /\ name # unknown
                                  THEN set_paths_from_scenario(
                                           config, config.base_map_folder, name)
                                  ELSE config
                     /\ pc' = "folder"
                     /\ UNCHANGED <<stats, exit_status, traceback>>
    /\ UNCHANGED <<files, aux_files, args, processed_count, successful_count,
                   calls, images, skipped,
                   path_vars, mobility_vars, cell_vars, pool_vars, tool_vars>>

\* one pass of the loop of generic_process_folder.  The call of
\* generate_output_path there gives three of its four required arguments.
FolderProcessFile ==
    /\ pc = "folder"
    /\ processed_count < Len(csv_files)
    /\ LET file_info == csv_files[processed_count + 1]
           configured == IF file_info.building # unknown
                         THEN configure_buildings(config, file_info.building,
                                                  file_info.csv_filename)
                         ELSE config
           validation == validate_paths(configured)
           filename_no_ext == splitext_root(file_info.csv_filename)
           output_path == validation.config.output_base
                              \o <<script_config.output_subfolder, scenario_name, unknown,
                                   filename_no_ext, filename_no_ext \o dot_png>>
           call == Call(script_config.plot_function, file_info.csv_path, output_path,
                        validation.config)
       IN  /\ processed_count' = processed_count + 1
           /\ config' = validation.config
           /\ IF validation.errors # <<>>
              THEN /\ skipped' = Append(skipped, file_info.csv_path)
                   /\ UNCHANGED <<pc, successful_count, calls, images, exit_status,
                                  traceback>>
              ELSE IF file_info.scenario # unknown
              THEN /\ Uncaught("TypeError")
                   /\ UNCHANGED <<successful_count, calls, images, skipped>>
              ELSE /\ calls' = Append(calls, call)
                   /\ images' = images \cup call.outcome.saved
                   /\ UNCHANGED skipped
                   /\ IF call.outcome.raised # ""
                      THEN /\ Uncaught(call.outcome.raised)
                           /\ UNCHANGED successful_count
                      ELSE /\ successful_count' = IF call.outcome.returned
                                                  THEN successful_count + 1
                                                  ELSE successful_count
                           /\ UNCHANGED <<pc, exit_status, traceback>>
    /\ UNCHANGED <<files, aux_files, args, csv_files, scenario_name, stats,
                   path_vars, mobility_vars, cell_vars, pool_vars, tool_vars>>

\* the end of generic_process_folder and of generic_process_batch
ReturnStats ==
    /\ pc \in {"folder", "batch"}
    /\ processed_count = Len(csv_files)
    /\ stats' = Stats(processed_count, successful_count)
    /\ pc' = "returned"
    /\ UNCHANGED <<files, aux_files, args, config, csv_files, scenario_name,
                   processed_count, successful_count, calls, images, exit_status,
                   skipped, traceback,
                   path_vars, mobility_vars, cell_vars, pool_vars, tool_vars>>

\* the branch "elif args.basefolder" of generic_main and generic_process_batch
\* up to its loop
BatchDiscover ==
    /\ pc = "main"
    /\ args.basefolder # None
    /\ IF config.base_map_folder = None /\ config.mobility_file = None
       THEN /\ exit_status' = 2 /\ pc' = "exited"
            /\ UNCHANGED <<csv_files, scenario_name, stats, traceback>>
       ELSE LET detection == detect_scenario_from_basepath(config.base_folder)
                result == find_csv_files(config.base_folder,
                                         config.max_files_per_protocol)
            IN  IF result.raised
                THEN /\ Uncaught("UnboundLocalError")
                     /\ UNCHANGED <<csv_files, scenario_name, stats>>
                ELSE IF result.csv_files = <<>>
                THEN /\ stats' = Stats(0, 0) /\ pc' = "returned"
                     /\ UNCHANGED <<csv_files, scenario_name, exit_status, traceback>>
                ELSE /\ csv_files' = result.csv_files
                     /\ scenario_name' = IF detection.structure_valid
                                         THEN detection.scenario_name
                                         ELSE basename(config.base_folder)
                     /\ pc' = "batch"
                     /\ UNCHANGED <<stats, exit_status, traceback>>
    /\ UNCHANGED <<files, aux_files, args, config, processed_count, successful_count,
                   calls, images, skipped,
                   path_vars, mobility_vars, cell_vars, pool_vars, tool_vars>>

\* mutant: the batch driver works on the caller's config, as the folder driver does
batch_temp_config_shared(cfg, name, file_info) ==
    [fresh |-> FALSE,
     config |->
        IF cfg.base_map_folder # None
        THEN configure_buildings(
                 set_paths_from_scenario(cfg, cfg.base_map_folder, name),
                 file_info.building, file_info.csv_filename)
        ELSE cfg]

\* temp_config of generic_process_batch before validate_paths, and whether it is
\* a new object
batch_temp_config(cfg, name, file_info) ==
    IF cfg.base_map_folder # None
    THEN [fresh |-> TRUE,
          config |-> configure_buildings(
                         set_paths_from_scenario(cfg, cfg.base_map_folder, name),
                         file_info.building, file_info.csv_filename)]
    ELSE [fresh |-> FALSE, config |-> cfg]

\* one pass of the loop of generic_process_batch
BatchProcessFile ==
    /\ pc = "batch"
    /\ processed_count < Len(csv_files)
    /\ LET file_info == csv_files[processed_count + 1]
           temp == batch_temp_config(config, scenario_name, file_info)
           validation == validate_paths(temp.config)
           output_path == generate_output_path(
                              [file_info EXCEPT !.scenario = scenario_name],
                              config.output_base, <<>>, script_config.output_subfolder)
           call == Call(script_config.plot_function, file_info.csv_path, output_path,
                        validation.config)
       IN  /\ processed_count' = processed_count + 1
           /\ config' = IF temp.fresh THEN config ELSE validation.config
           /\ IF validation.errors # <<>>
              THEN /\ skipped' = Append(skipped, file_info.csv_path)
                   /\ UNCHANGED <<pc, successful_count, calls, images, exit_status,
                                  traceback>>
              ELSE /\ calls' = Append(calls, call)
                   /\ images' = images \cup call.outcome.saved
                   /\ UNCHANGED skipped
                   /\ IF call.outcome.raised # ""
                      THEN /\ Uncaught(call.outcome.raised)
                           /\ UNCHANGED successful_count
                      ELSE /\ successful_count' = IF call.outcome.returned
                                                  THEN successful_count + 1
                                                  ELSE successful_count
                           /\ UNCHANGED <<pc, exit_status, traceback>>
    /\ UNCHANGED <<files, aux_files, args, csv_files, scenario_name, stats,
                   path_vars, mobility_vars, cell_vars, pool_vars, tool_vars>>

\* "if stats["failed_count"] > 0: sys.exit(1)", else the script ends with 0
Exit ==
    /\ pc = "returned"
    /\ exit_status' = IF stats.failed_count > 0 THEN 1 ELSE 0
    /\ pc' = "exited"
    /\ UNCHANGED <<files, aux_files, args, config, csv_files, scenario_name,
                   processed_count, successful_count, calls, images, stats,
                   skipped, traceback,
                   path_vars, mobility_vars, cell_vars, pool_vars, tool_vars>>

NextRun ==
    \/ SimulatorWrites \/ ArgumentError \/ ParseArguments
    \/ RunSingleFile
    \/ FolderDiscover \/ FolderProcessFile
    \/ BatchDiscover \/ BatchProcessFile
    \/ ReturnStats \/ Exit

SpecRun == InitScriptRun /\ [][NextRun]_vars

-----------------------------------------------------------------------------
(* The program: drawAll.main runs the four drawing scripts through a pool *)

\* Pool(processes=4)
PoolSize == 4

\* the commands main hands to pool.map (each followed by the script arguments)
processes ==
    <<"./drawCoverage.py", "./drawAlertPaths.py", "./drawSingleHops.py",
      "./drawMultipleTransmissions.py">>

\* a pool worker without a task
Idle == [command |-> "", started |-> FALSE]

\* mutant: the call returns at once, as pool.map_async does
map_returns_at_once(queue, workers) == TRUE

\* pool.map(run_process, processes) blocks until every task has been handed
\* out and its worker has returned from run_process
map_returns(queue, workers) ==
    queue = <<>> /\ \A w \in DOMAIN workers : workers[w] = Idle

InitDrawAll ==
    /\ pc = "drawAll"
    /\ InitPathIdle /\ InitMobility /\ InitVector /\ InitMap
    /\ InitRun /\ InitPool /\ InitTools

\* "pool = Pool(processes=4)" and the call of pool.map, which queues one task
\* per command (chunksize 1 for four commands and four workers)
CreatePool ==
    /\ pc = "drawAll"
    /\ pool_state' = "running"
    /\ worker_task' = [w \in 1..PoolSize |-> Idle]
    /\ task_queue' = processes
    /\ script_runs' = [command \in Range(processes) |-> 0]
    /\ pc' = "map"
    /\ UNCHANGED <<script_done, path_vars, mobility_vars, cell_vars, run_vars, tool_vars>>

\* Pool() or pool.map raises: "except Exception", sys.exit(1)
PoolError ==
    /\ pc = "drawAll"
    /\ pc' = "exited"
    /\ exit_status' = 1
    /\ UNCHANGED <<files, aux_files, args, config, csv_files, scenario_name,
                   processed_count, successful_count, calls, images, stats,
                   skipped, traceback,
                   path_vars, mobility_vars, cell_vars, pool_vars, tool_vars>>

\* an idle worker takes the next task from the queue
WorkerTakes(w) ==
    /\ pool_state = "running"
    /\ worker_task[w] = Idle
    /\ task_queue # <<>>
    /\ worker_task' = [worker_task EXCEPT ![w] = [command |-> Head(task_queue),
                                                   started |-> FALSE]]
    /\ task_queue' = Tail(task_queue)
    /\ UNCHANGED <<pc, script_runs, script_done, pool_state,
                   path_vars, mobility_vars, cell_vars, run_vars, tool_vars>>

\* run_process(process): os.system starts the script as a process of its own
run_process(w) ==
    /\ pool_state = "running"
    /\ worker_task[w] # Idle
    /\ ~worker_task[w].started
    /\ worker_task' = [worker_task EXCEPT ![w].started = TRUE]
    /\ script_runs' = [script_runs EXCEPT ![worker_task[w].command] = @ + 1]
    /\ UNCHANGED <<pc, task_queue, script_done, pool_state,
                   path_vars, mobility_vars, cell_vars, run_vars, tool_vars>>

\* the script ends: os.system and run_process return, the worker is free again
ScriptEnds(w) ==
    /\ pool_state = "running"
    /\ worker_task[w] # Idle
    /\ worker_task[w].started
    /\ script_done' = script_done \cup {worker_task[w].command}
    /\ worker_task' = [worker_task EXCEPT ![w] = Idle]
    /\ UNCHANGED <<pc, task_queue, script_runs, pool_state,
                   path_vars, mobility_vars, cell_vars, run_vars, tool_vars>>

\* pool.map returns
MapReturns ==
    /\ pc = "map"
    /\ map_returns(task_queue, worker_task)
    /\ pc' = "close"
    /\ UNCHANGED <<path_vars, mobility_vars, cell_vars, run_vars, pool_vars, tool_vars>>

\* pool.close(); pool.join(); main returns
CloseAndJoin ==
    /\ pc = "close"
    /\ pool_state' = "joined"
    /\ pc' = "done"
    /\ exit_status' = 0
    /\ UNCHANGED <<files, aux_files, args, config, csv_files, scenario_name,
                   processed_count, successful_count, calls, images, stats,
                   skipped, traceback,
                   task_queue, worker_task, script_runs, script_done,
                   path_vars, mobility_vars, cell_vars, tool_vars>>

\* KeyboardInterrupt inside the try block, the pool being there:
\* pool.terminate() stops the workers, then pool.join() and sys.exit(1)
KeyboardInterrupt ==
    /\ pc \in {"map", "close"}
    /\ pool_state' = "terminated"
    /\ worker_task' = [w \in 1..PoolSize |-> Idle]
    /\ task_queue' = <<>>
    /\ pc' = "exited"
    /\ exit_status' = 1
    /\ UNCHANGED <<files, aux_files, args, config, csv_files, scenario_name,
                   processed_count, successful_count, calls, images, stats,
                   skipped, traceback,
                   script_runs, script_done,
                   path_vars, mobility_vars, cell_vars, tool_vars>>

NextDrawAll ==
    \/ CreatePool \/ PoolError
    \/ \E w \in 1..PoolSize : WorkerTakes(w) \/ run_process(w) \/ ScriptEnds(w)
    \/ MapReturns \/ CloseAndJoin \/ KeyboardInterrupt

SpecDrawAll == InitDrawAll /\ [][NextDrawAll]_vars

-----------------------------------------------------------------------------
(* The program: configure_buildings called on a config, file after file *)

MaxCalls == 2      \* calls of configure_buildings on one config

\* file names with and without a building mark, in either case
b0_run_csv == <<"b","0","-","r","u","n",".","c","s","v">>

B0_run_csv == <<"B","0","-","r","u","n",".","c","s","v">>

run_b1_csv == <<"r","u","n","-","b","1",".","c","s","v">>

\* the config after process_common_arguments, for a command line with -m, with
\* or without -p and --force-buildings
InitBuildings ==
    /\ pc = "buildings"
    /\ InitPathIdle /\ InitMobility /\ InitVector /\ InitMap
    /\ InitDisk /\ InitPool /\ InitTools
    /\ \E force \in BOOLEAN, poly \in {None, GivenPoly} :
           /\ args = [NoArgs EXCEPT !.file = Append(GridRoff, run1_csv),
                                    !.mobility = GivenMobility,
                                    !.poly = poly, !.force_buildings = force]
           /\ config = process_common_arguments(args)
    /\ csv_files = <<>> /\ scenario_name = None
    /\ processed_count = 0 /\ successful_count = 0
    /\ calls = <<>> /\ images = {} /\ stats = NoStats
    /\ exit_status = -1 /\ skipped = <<>> /\ traceback = ""

\* config.configure_buildings(building_mode, filename, verbose)
ConfigureBuildings ==
    /\ pc = "buildings"
    /\ Len(calls) < MaxCalls
    /\ \E building_mode \in {b0, b1, unknown},
          filename \in {None, run1_csv, b0_run_csv, B0_run_csv, run_b1_csv} :
           /\ config' = configure_buildings(config, building_mode, filename)
           /\ calls' = Append(calls, [building_mode |-> building_mode,
                                      filename |-> filename,
                                      before |-> config, after |-> config'])
    /\ UNCHANGED <<pc, files, aux_files, args, csv_files, scenario_name,
                   processed_count, successful_count, images, stats, exit_status,
                   skipped, traceback,
                   path_vars, mobility_vars, cell_vars, pool_vars, tool_vars>>

NextBuildings == ConfigureBuildings

SpecBuildings == InitBuildings /\ [][NextBuildings]_vars

-----------------------------------------------------------------------------
(* The program: generate_maps_and_jobs.main calls run_scenario per cw and scenario *)

MaxScenarios == 3  \* scenario names given with --scenarios

Platoon == <<"P","l","a","t","o","o","n">>

Cube == <<"C","u","b","e">>

Platoon_15km == <<"P","l","a","t","o","o","n","-","1","5","k","m">>

Cube_150 == <<"C","u","b","e","-","1","5","0">>

Cube_75 == <<"C","u","b","e","-","7","5">>

\* the scenario names the command line may give
ScenarioNames == {Padova_25, Grid_300, Platoon_15km, Cube_150, Cube_75}

\* the entries of starting_node_map for these names ("Cube-75" is commented out)
starting_node_map ==
    (Padova_25 :> 310) @@ (Grid_300 :> 3136) @@ (Platoon_15km :> 0) @@ (Cube_150 :> 4210)

\* the entries of vehicles_number for these names
vehicles_number ==
    (Padova_25 :> 0) @@ (Grid_300 :> 0) @@ (Platoon_15km :> 0) @@ (Cube_150 :> 0)
        @@ (Cube_75 :> 0)

\* the values --contentionWindows may give
ContentionWindowLists ==
    { <<[cwMin |-> 32, cwMax |-> 1024]>>,
      <<[cwMin |-> 32, cwMax |-> 1024], [cwMin |-> 16, cwMax |-> 128]>> }

\* the sequences over S of length 1 to n
SeqsUpTo(S, n) == UNION {[1..k -> S] : k \in 1..n}

\* the three "if ... in scenario: area = ..." of the loop body, from the area
\* the local variable holds when the iteration starts
area_after_ifs(area_before, scenario) ==
    LET platoon == IF Contains(scenario, Platoon) THEN 14000 ELSE area_before
        grid == IF Contains(scenario, Grid) THEN 2000 ELSE platoon
    IN  IF Contains(scenario, Cube) /\ scenario # Cube_75 THEN 1300 ELSE grid

\* main up to "area = 1000" and the parsing of the command line
InitJobs ==
    /\ pc = "jobs"
    /\ InitPathIdle /\ InitMobility /\ InitVector /\ InitMap
    /\ InitRun /\ InitPool /\ InitGraphIdle
    /\ \E manual \in BOOLEAN, scenarios \in SeqsUpTo(ScenarioNames, MaxScenarios),
          contention_windows \in ContentionWindowLists :
           job_args = [manual |-> manual, scenarios |-> scenarios,
                       contention_windows |-> contention_windows]
    /\ cw_index = 1
    /\ scenario_index = 1
    /\ area = 1000
    /\ run_scenario_calls = <<>>

\* "if args.mapPath and args.vehicleDistance": one call, for the map given
ManualRun ==
    /\ pc = "jobs"
    /\ job_args.manual
    /\ run_scenario_calls' = Append(run_scenario_calls,
           [manual |-> TRUE, cw |-> <<>>, scenario |-> <<>>, distance |-> <<>>,
            starting_node |-> -1, vehicles_number |-> -1, area |-> area])
    /\ pc' = "jobs_done"
    /\ UNCHANGED <<job_args, cw_index, scenario_index, area, graph_vars,
                   path_vars, mobility_vars, cell_vars, run_vars, pool_vars>>

\* one turn of "for cw in contention_windows: for scenario in scenarios"
LoopTurn ==
    /\ pc = "jobs"
    /\ ~job_args.manual
    /\ cw_index <= Len(job_args.contention_windows)
    /\ LET cw == job_args.contention_windows[cw_index]
           scenario == job_args.scenarios[scenario_index]
           last == scenario_index = Len(job_args.scenarios)
           distance == IF Contains(scenario, Grid) \/ Contains(scenario, Platoon)
                       THEN <<"2", "5">>
                       ELSE Split(scenario, "-")[2]
       IN  /\ area' = area_after_ifs(area, scenario)
           /\ IF scenario \notin DOMAIN starting_node_map
              THEN /\ traceback' = "KeyError"
                   /\ exit_status' = 1
                   /\ pc' = "raised"
                   /\ UNCHANGED <<cw_index, scenario_index, run_scenario_calls>>
              ELSE /\ run_scenario_calls' = Append(run_scenario_calls,
                          [manual |-> FALSE, cw |-> <<cw>>, scenario |-> scenario,
                           distance |-> distance,
                           starting_node |-> starting_node_map[scenario],
                           vehicles_number |-> vehicles_number[scenario],
                           area |-> area'])
                   /\ scenario_index' = IF last THEN 1 ELSE scenario_index + 1
                   /\ cw_index' = IF last THEN cw_index + 1 ELSE cw_index
                   /\ pc' = IF last /\ cw_index = Len(job_args.contention_windows)
                            THEN "jobs_done" ELSE "jobs"
                   /\ UNCHANGED <<traceback, exit_status>>
    /\ UNCHANGED <<job_args, graph_vars, files, aux_files, args, config, csv_files,
                   scenario_name, processed_count, successful_count, calls, images,
                   stats, skipped, path_vars, mobility_vars, cell_vars, pool_vars>>

NextJobs == ManualRun \/ LoopTurn

SpecJobs == InitJobs /\ [][NextJobs]_vars

-----------------------------------------------------------------------------
(* The program: graph_utils.read_csv_from_directory over the entries of a directory *)

MaxStatRows == 2   \* data rows of the CSV file whose rows vary

nan == <<"n","a","n">>

minus_nan == <<"-","n","a","n">>

abc == <<"a","b","c">>

Combined_run1_csv == <<"C","o","m","b","i","n","e","d","-">> \o run1_csv

run0_csv == <<"r","u","n","0",".","c","s","v">>

StartsWith(s, prefix) == Len(s) >= Len(prefix) /\ SubSeq(s, 1, Len(prefix)) = prefix

\* a row of 13 cells as csv.reader yields it; cells 0 to 4 and 9 are not read
StatRow(total_nodes, nodes_on_circ, total_coverage, cov_on_circ, hop_count, slot_count,
        sent) ==
    << <<"1">>, <<"1">>, <<"1">>, <<"1">>, <<"1">>,
       total_nodes, nodes_on_circ, total_coverage, cov_on_circ, <<"1">>,
       hop_count, slot_count, sent >>

GoodStatRow == StatRow(str(10), str(4), str(8), str(3), str(3), str(12), str(20))

OtherStatRow == StatRow(str(5), str(2), str(5), str(1), str(2), str(7), str(9))

\* the rows a result file may hold: complete ones, one with a nan cell, one with
\* an empty cell, one with text for a number, one with no node on the
\* circumference, and one cut short after its eighth cell
StatRowKinds ==
    { GoodStatRow, OtherStatRow,
      StatRow(str(10), str(4), str(8), str(3), nan, str(12), str(20)),
      StatRow(str(10), str(4), <<>>, str(3), str(3), str(12), str(20)),
      StatRow(str(10), str(4), str(8), str(3), abc, str(12), str(20)),
      StatRow(abc, str(4), str(8), str(3), str(3), str(12), str(20)),
      StatRow(str(10), str(0), str(8), str(0), str(3), str(12), str(20)),
      SubSeq(GoodStatRow, 1, 8) }

StatHeader == [i \in 1..13 |-> <<"h">>]

\* the sequences over S of length 0 to n
SeqsFromEmpty(S, n) == UNION {[1..k -> S] : k \in 0..n}

\* "if any(value in invalid_values or value == "nan" for value in row)"
has_invalid_value(row) == \E i \in 1..Len(row) : row[i] \in {<<>>, minus_nan, nan}

\* the seven appends of a cell, in the order of the try block; cell is 1-based
CellAppends ==
    << [list |-> "total_nodes",    cell |-> 6,  convert |-> "int"],
       [list |-> "nodes_on_circ",  cell |-> 7,  convert |-> "int"],
       [list |-> "total_coverage", cell |-> 8,  convert |-> "int"],
       [list |-> "cov_on_circ",    cell |-> 9,  convert |-> "int"],
       [list |-> "hops",           cell |-> 11, convert |-> "float"],
       [list |-> "slots",          cell |-> 12, convert |-> "float"],
       [list |-> "message_sent",   cell |-> 13, convert |-> "int"] >>

\* the appends from the k-th on; an IndexError or ValueError leaves the try
\* block with what was appended before
RECURSIVE append_cells(_, _, _)
append_cells(ls, row, k) ==
    IF k > Len(CellAppends) THEN [raised |-> FALSE, lists |-> ls]
    ELSE LET step == CellAppends[k]
         IN  IF Len(row) < step.cell THEN [raised |-> TRUE, lists |-> ls]
             ELSE IF step.convert = "int" /\ ~is_int(row[step.cell])
             THEN [raised |-> TRUE, lists |-> ls]
             ELSE IF step.convert = "float" /\ ~is_float(row[step.cell])
             THEN [raised |-> TRUE, lists |-> ls]
             ELSE append_cells(
                      [ls EXCEPT ![step.list] =
                          Append(@, IF step.convert = "int" THEN int(row[step.cell])
                                    ELSE float(row[step.cell]))],
                      row, k + 1)

\* (float(part) / float(whole)) * 100, kept as the exact quotient
percent(part, whole) == [num |-> part * 100, den |-> whole]

Last(list) == list[Len(list)]

\* the two appends of a percentage; the division raises ZeroDivisionError when
\* the last total is 0
append_percents(ls) ==
    IF Last(ls.total_nodes) = 0 THEN [raised |-> TRUE, lists |-> ls]
    ELSE LET with_total ==
                 [ls EXCEPT !.total_coverage_percent =
                     Append(@, percent(Last(ls.total_coverage), Last(ls.total_nodes)))]
         IN  IF Last(ls.nodes_on_circ) = 0 THEN [raised |-> TRUE, lists |-> with_total]
             ELSE [raised |-> FALSE,
                   lists |-> [with_total EXCEPT !.cov_on_circ_percent =
                       Append(@, percent(Last(ls.cov_on_circ), Last(ls.nodes_on_circ)))]]

\* the body of "for i, row in enumerate(rows[1:])": the lists after the row
read_row(ls, row) ==
    IF has_invalid_value(row) THEN ls
    ELSE LET cells == append_cells(ls, row, 1)
         IN  IF cells.raised THEN cells.lists
             ELSE append_percents(cells.lists).lists

\* the loop over rows[1:], from the i-th row of the file on
RECURSIVE read_rows(_, _, _)
read_rows(ls, rows, i) ==
    IF i > Len(rows) THEN ls ELSE read_rows(read_row(ls, rows[i]), rows, i + 1)

\* the entry of the listing is passed over before it is opened
entry_passed_over(entry) ==
    \/ ~entry.is_file
    \/ ~EndsWith(entry.name, dot_csv)
    \/ StartsWith(entry.name, <<"C","o","m","b","i","n","e","d","-">>)

RECURSIVE SeqSum(_)
SeqSum(list) == IF list = <<>> THEN 0 ELSE Head(list) + SeqSum(Tail(list))

RECURSIVE GCD(_, _)
GCD(a, b) == IF b = 0 THEN a ELSE GCD(b, a % b)

\* the sum of exact quotients, as one quotient in lowest terms
RECURSIVE QuotientSum(_)
QuotientSum(list) ==
    IF list = <<>> THEN [num |-> 0, den |-> 1]
    ELSE LET rest == QuotientSum(Tail(list))
             num == Head(list).num * rest.den + rest.num * Head(list).den
             den == Head(list).den * rest.den
         IN  [num |-> num \div GCD(num, den), den |-> den \div GCD(num, den)]

\* calculate_mean_and_conf_int(data_list, static, cast_to_int) with static False,
\* the data given by its sum num/den and its length: the mean in hundredths
\* (in units when cast_to_int), rounded; of the amplitude of the confidence
\* interval, a real number, only whether it is 0 (fewer than two points, or no
\* variation) is kept
calculate_mean_and_conf_int(total, length, varies, cast_to_int) ==
    IF length = 0 THEN [mean |-> 0, conf_int_is_zero |-> TRUE]
    ELSE LET scale == IF cast_to_int THEN 1 ELSE 100
             divisor == total.den * length
         IN  [mean |-> (2 * scale * total.num + divisor) \div (2 * divisor),
              conf_int_is_zero |-> length <= 1 \/ ~varies]

Whole(list) == [num |-> SeqSum(list), den |-> 1]

Varies(list) == \E i, j \in 1..Len(list) : list[i] # list[j]

QuotientVaries(list) ==
    \E i, j \in 1..Len(list) : list[i].num * list[j].den # list[j].num * list[i].den

\* the directory before read_csv_from_directory runs: a text file, a
\* sub-directory, a Combined- file, a CSV file with its header only, and two
\* result files
InitGraph ==
    /\ pc = "graphs"
    /\ InitPathIdle /\ InitMobility /\ InitVector /\ InitMap
    /\ InitRun /\ InitPool /\ InitJobsIdle
    /\ \E rows \in SeqsFromEmpty(StatRowKinds, MaxStatRows), row \in StatRowKinds :
           listing =
               << [name |-> notes_txt, is_file |-> TRUE, rows |-> <<>>],
                  [name |-> gsl_extra, is_file |-> FALSE, rows |-> <<>>],
                  [name |-> Combined_run1_csv, is_file |-> TRUE,
                   rows |-> <<StatHeader, GoodStatRow>>],
                  [name |-> run0_csv, is_file |-> TRUE, rows |-> <<StatHeader>>],
                  [name |-> run1_csv, is_file |-> TRUE, rows |-> <<StatHeader>> \o rows],
                  [name |-> run2_csv, is_file |-> TRUE, rows |-> <<StatHeader, row>>] >>
    /\ file_index = 1
    /\ lists = NoLists
    /\ statistics = <<>>

\* one turn of "for file_name in os.listdir(path)"
ReadEntry ==
    /\ pc = "graphs"
    /\ file_index <= Len(listing)
    /\ LET entry == listing[file_index]
       IN  lists' = IF entry_passed_over(entry) \/ Len(entry.rows) <= 1
                    THEN lists
                    ELSE read_rows(lists, entry.rows, 2)
    /\ file_index' = file_index + 1
    /\ UNCHANGED <<pc, listing, statistics, jobs_vars,
                   path_vars, mobility_vars, cell_vars, run_vars, pool_vars>>

\* the five calls of calculate_mean_and_conf_int and the dict returned
ReturnStatistics ==
    /\ pc = "graphs"
    /\ file_index > Len(listing)
    /\ LET total_cov ==
               calculate_mean_and_conf_int(QuotientSum(lists.total_coverage_percent),
                   Len(lists.total_coverage_percent),
                   QuotientVaries(lists.total_coverage_percent), FALSE)
           cov_on_circ ==
               calculate_mean_and_conf_int(QuotientSum(lists.cov_on_circ_percent),
                   Len(lists.cov_on_circ_percent),
                   QuotientVaries(lists.cov_on_circ_percent), FALSE)
           hop_stat == calculate_mean_and_conf_int(Whole(lists.hops), Len(lists.hops),
                                                   Varies(lists.hops), FALSE)
           message_sent ==
               calculate_mean_and_conf_int(Whole(lists.message_sent),
                   Len(lists.message_sent), Varies(lists.message_sent), TRUE)
           slots_waited == calculate_mean_and_conf_int(Whole(lists.slots), Len(lists.slots),
                                                       Varies(lists.slots), TRUE)
       IN  statistics' =
               [totCoverageMean |-> total_cov.mean,
                totCoverageConfIntIsZero |-> total_cov.conf_int_is_zero,
                covOnCircMean |-> cov_on_circ.mean,
                covOnCircConfIntIsZero |-> cov_on_circ.conf_int_is_zero,
                hopsMean |-> hop_stat.mean,
                hopsConfIntIsZero |-> hop_stat.conf_int_is_zero,
                messageSentMean |-> message_sent.mean,
                messageSentConfIntIsZero |-> message_sent.conf_int_is_zero,
                slotsWaitedMean |-> slots_waited.mean,
                slotsWaitedConfIntIsZero |-> slots_waited.conf_int_is_zero]
    /\ pc' = "graphs_done"
    /\ UNCHANGED <<listing, file_index, lists, jobs_vars,
                   path_vars, mobility_vars, cell_vars, run_vars, pool_vars>>

NextGraph == ReadEntry \/ ReturnStatistics

SpecGraph == InitGraph /\ [][NextGraph]_vars

-----------------------------------------------------------------------------
(* Properties of parse_csv_path_structure *)

\* p is <prefix>/S/B/E/R/J/[C/]P/<file>.csv, every segment matching its pattern
ConventionPath(p, with_cw) ==
    LET n == Len(p)
        s == IF with_cw THEN n - 7 ELSE n - 6
    IN  /\ s >= 1
        /\ MatchScenario(p[s])
        /\ MatchBuilding(p[s + 1])
        /\ MatchErrorRate(p[s + 2])
        /\ MatchTxRange(p[s + 3])
        /\ MatchJunction(p[s + 4])
        /\ with_cw => MatchCw(p[s + 5])
        /\ MatchProtocol(p[n - 1])
        /\ EndsWith(p[n], dot_csv)

ConventionTuple(p, with_cw) ==
    LET n == Len(p)
        s == IF with_cw THEN n - 7 ELSE n - 6
    IN  [is_none      |-> FALSE,
         scenario     |-> p[s],
         building     |-> p[s + 1],
         error_rate   |-> p[s + 2],
         txRange      |-> p[s + 3],
         junction     |-> p[s + 4],
         cw           |-> IF with_cw THEN p[s + 5] ELSE none,
         protocol     |-> p[n - 1],
         csv_filename |-> p[n]]

\* p with its cw segment (third from the end) taken out
WithoutCw(p) == SubSeq(p, 1, Len(p) - 3) \o SubSeq(p, Len(p) - 1, Len(p))

\* C1: a path that follows the convention, with or without the cw segment,
\* parses to the tuple of its segments, cw being the segment or "none"; the
\* same path without its cw segment parses to the same tuple but for cw.
C1_ConventionPathParses ==
    pc = "parsed" =>
        \A with_cw \in BOOLEAN :
            ConventionPath(csv_path, with_cw) =>
                /\ components = ConventionTuple(csv_path, with_cw)
                /\ with_cw =>
                       parse_csv_path_structure(WithoutCw(csv_path))
                           = [components EXCEPT !.cw = none]

C1_Witness ==
    /\ pc = "parsed"
    /\ Len(csv_path) > 8
    /\ ConventionPath(csv_path, TRUE)
    /\ components.cw = cw_32_1024
    /\ components.protocol = Fast_Broadcast

FieldInvariant(c) ==
    /\ MatchScenario(c.scenario)
    /\ MatchBuilding(c.building)
    /\ MatchErrorRate(c.error_rate)
    /\ MatchTxRange(c.txRange)
    /\ MatchJunction(c.junction)
    /\ c.cw = none \/ MatchCw(c.cw)
    /\ MatchProtocol(c.protocol)

FieldInvariantOrUnknown(c) ==
    /\ MatchScenario(c.scenario)
    /\ c.building = unknown \/ MatchBuilding(c.building)
    /\ c.error_rate = unknown \/ MatchErrorRate(c.error_rate)
    /\ c.txRange = unknown \/ MatchTxRange(c.txRange)
    /\ c.junction = unknown \/ MatchJunction(c.junction)
    /\ c.cw = none \/ MatchCw(c.cw)
    /\ c.protocol = unknown \/ MatchProtocol(c.protocol)

\* C2 as stated: every tuple returned satisfies the field invariant.
C2_EveryTupleMatches ==
    (pc = "parsed" /\ ~components.is_none) => FieldInvariant(components)

\* C2, amended: a tuple returned for a path whose directory the detector
\* accepts has a scenario matching its pattern, a cw that is "none" or matches
\* the cw pattern, and every other field either "unknown" or matching its
\* pattern.
C2_DetectedTupleMatchesOrUnknown ==
    (/\ pc = "parsed"
     /\ ~components.is_none
     /\ detect_scenario_from_basepath(
            SubSeq(csv_path, 1, Len(csv_path) - 1)).structure_valid)
        => FieldInvariantOrUnknown(components)

C2_Witness ==
    /\ pc = "parsed"
    /\ ~components.is_none
    /\ components.scenario = Padova_25
    /\ components.building = b1
    /\ components.txRange = unknown
    /\ components.protocol = unknown

-----------------------------------------------------------------------------
(* Properties of detect_scenario_from_basepath *)

\* the depths of base_folder the walk examines: the path itself and its
\* ancestors, MaxLevels directories at most
Examined == {k \in 1..Len(base_folder) : Len(base_folder) - k < MaxLevels}

\* the examined directories from which the rest of base_folder validates
Validating ==
    {k \in Examined :
        /\ MatchScenario(base_folder[k])
        /\ validate_structure_parts(SubSeq(base_folder, k + 1, Len(base_folder)))}

C4_FallbackResult ==
    pc = "detected" =>
        /\ detection_result.structure_valid \in BOOLEAN
        /\ detection_result.structure_valid =>
               Len(detection_result.scenario_path) \in Examined
        /\ (\A k \in Examined : ~MatchScenario(base_folder[k])) =>
               detection_result =
                   [scenario_path   |-> base_folder,
                    scenario_name   |-> IF base_folder = <<>> THEN <<>>
                                        ELSE base_folder[Len(base_folder)],
                    sub_path        |-> <<>>,
                    is_sub_branch   |-> FALSE,
                    structure_valid |-> FALSE]

\* a scenario directory lies above the given path, beyond the levels examined
C4_Witness ==
    /\ pc = "detected"
    /\ ~detection_result.structure_valid
    /\ Len(base_folder) > MaxLevels
    /\ \A k \in Examined : ~MatchScenario(base_folder[k])
    /\ \E k \in 1..Len(base_folder) :
           /\ MatchScenario(base_folder[k])
           /\ validate_structure_parts(SubSeq(base_folder, k + 1, Len(base_folder)))
    /\ detection_result.scenario_name = gsl_extra

\* C5: the detector run on the scenario_path it reconstructed reports a valid
\* structure at the scenario level, with the same scenario name.
C5_Idempotent ==
    (pc = "redetected" /\ detection_result.structure_valid) =>
        /\ redetection.structure_valid
        /\ redetection.sub_path = <<>>
        /\ ~redetection.is_sub_branch
        /\ redetection.scenario_name = detection_result.scenario_name

C5_Witness ==
    /\ pc = "redetected"
    /\ detection_result.structure_valid
    /\ detection_result.is_sub_branch
    /\ Len(detection_result.sub_path) >= 5
    /\ redetection.structure_valid

-----------------------------------------------------------------------------
(* Boundary: fewer than 5 segments below the scenario directory *)

\* p is <prefix>/S/<the first m convention segments>/<file>.csv
ShortPath(p, m) ==
    LET n == Len(p)
        s == n - m - 1
    IN  /\ s >= 1
        /\ MatchScenario(p[s])
        /\ m >= 1 => MatchBuilding(p[s + 1])
        /\ m >= 2 => MatchErrorRate(p[s + 2])
        /\ m >= 3 => MatchTxRange(p[s + 3])
        /\ m >= 4 => MatchJunction(p[s + 4])
        /\ EndsWith(p[n], dot_csv)

\* C6: a path with m < 5 convention segments below the scenario directory
\* parses to a tuple with the scenario name, the present segments in order and
\* "unknown" for every missing field.
C6_ShortPathUnknown ==
    pc = "parsed" =>
        \A m \in 0..4 :
            ShortPath(csv_path, m) =>
                LET s == Len(csv_path) - m - 1
                IN  /\ ~components.is_none
                    /\ components.scenario = csv_path[s]
                    /\ components.building = IF m >= 1 THEN csv_path[s + 1] ELSE unknown
                    /\ components.error_rate = IF m >= 2 THEN csv_path[s + 2] ELSE unknown
                    /\ components.txRange = IF m >= 3 THEN csv_path[s + 3] ELSE unknown
                    /\ components.junction = IF m >= 4 THEN csv_path[s + 4] ELSE unknown
                    /\ components.protocol = unknown

C6_Witness ==
    /\ pc = "parsed"
    /\ ShortPath(csv_path, 3)
    /\ components.txRange = r300
    /\ components.junction = unknown
    /\ components.protocol = unknown

-----------------------------------------------------------------------------
(* Properties of the mobility file *)

\* the mapping the records written stand for: str(id) -> Vector
WrittenMapping ==
    [key \in {str(written[i].id) : i \in 1..Len(written)} |->
        LET i == CHOOSE i \in 1..Len(written) : str(written[i].id) = key
        IN  [x |-> written[i].x, y |-> written[i].y, z |-> written[i].z]]

\* C7: a file made of N writeNodeToFile blocks reads back as the N-entry
\* mapping from each id to the coordinates written for it, for N >= 0.
C7_RoundTrip ==
    (pc = "read" /\ foreign = 0) =>
        /\ ~coord_dict.raised
        /\ Cardinality(DOMAIN coord_dict.dict) = Len(written)
        /\ \A i \in 1..Len(written) :
               /\ str(written[i].id) \in DOMAIN coord_dict.dict
               /\ coord_dict.dict[str(written[i].id)]
                      = [x |-> written[i].x, y |-> written[i].y, z |-> written[i].z]

C7_Witness ==
    /\ pc = "read"
    /\ foreign = 0
    /\ Len(written) = MaxNodes
    /\ Len(mobility_file) = 4 * MaxNodes
    /\ \E i \in 1..Len(written) : written[i].id = 12 /\ written[i].x = -7
    /\ ~coord_dict.raised
    /\ Cardinality(DOMAIN coord_dict.dict) = MaxNodes

\* the lines of the file that split into other than 4 tokens
SkippedLines ==
    {i \in 1..Len(mobility_file) : Len(Split(Strip(mobility_file[i]), " ")) # 4}

\* C8: with lines that do not split into 4 tokens between the node records
\* (blank lines, comments, setdest commands), the reader returns exactly one
\* entry per node, holding the values of the node's X_, Y_ and Z_ lines.
C8_NoiseSkipped ==
    (pc = "read" /\ foreign > 0) =>
        /\ ~coord_dict.raised
        /\ coord_dict.dict = WrittenMapping
        /\ Len(mobility_file) = 3 * Len(written) + Cardinality(SkippedLines)

\* node 0 at (100,100,100) and node 1 at (125,100,100), with noise between
C8_Witness ==
    /\ pc = "read"
    /\ foreign > 0
    /\ \E i \in SkippedLines : mobility_file[i] \in NoiseLines
    /\ ~coord_dict.raised
    /\ DOMAIN coord_dict.dict = {<<"0">>, <<"1">>}
    /\ coord_dict.dict[<<"0">>] = [x |-> 100, y |-> 100, z |-> 100]
    /\ coord_dict.dict[<<"1">>] = [x |-> 125, y |-> 100, z |-> 100]

-----------------------------------------------------------------------------
(* Properties of the cell sub-parsers *)

\* C9: the cell parses to the edges it was written from, in the same order,
\* one per non-empty token; empty tokens (leading, doubled or trailing
\* underscores) are ignored.
C9_EdgesInOrder ==
    pc = "vector_parsed" =>
        /\ ~transmission_vector.raised
        /\ transmission_vector.edges = edges_written

\* "1-2*0_2-3*1_" gives [Edge(1,2,0), Edge(2,3,1)]
C9_Witness ==
    /\ pc = "vector_parsed"
    /\ raw_transmission_vector
           = <<"1","-","2","*","0","_","2","-","3","*","1","_">>
    /\ transmission_vector.edges
           = << [source |-> 1, destination |-> 2, phase |-> 0],
                [source |-> 2, destination |-> 3, phase |-> 1] >>

\* the receivers listed for a sender anywhere in the cell, in order, as strings
RECURSIVE ReceiversOf(_, _)
ReceiversOf(sender, entries) ==
    IF entries = <<>> THEN <<>>
    ELSE (IF Head(entries).sender = sender
          THEN [i \in 1..Len(Head(entries).receivers) |-> str(Head(entries).receivers[i])]
          ELSE <<>>)
             \o ReceiversOf(sender, Tail(entries))

SendersWritten == {entries_written[i].sender : i \in 1..Len(entries_written)}

\* C10: every sender of the cell maps to all the receivers listed for it
\* anywhere in the cell, in order, the qualifier after ':' being discarded.
C10_AllReceiversOfSender ==
    pc = "map_parsed" =>
        /\ ~transmission_map.raised
        /\ DOMAIN transmission_map.map = {str(sender) : sender \in SendersWritten}
        /\ \A sender \in SendersWritten :
               transmission_map.map[str(sender)] = ReceiversOf(sender, entries_written)

-----------------------------------------------------------------------------
(* Properties of parse_file and of the renderers that call it *)

\* the header cell bears the column name, whatever surrounds it
NamesColumn(cell, name) == name \in Range(cell)

\* the file holds no data row
NoDataRow(lines) == Len(lines) <= 1

\* no header cell bears the name of one of the ten columns read
LacksColumn(lines) ==
    /\ Len(lines) >= 1
    /\ \E name \in Range(AllColumns) :
           \A i \in 1..Len(lines[1]) : ~NamesColumn(lines[1][i], name)

\* the first data row has, under one of the five numeric columns, a cell that
\* is not a string of decimal digits
NonNumeric(lines) ==
    /\ Len(lines) >= 2
    /\ \E i \in 1..Min({Len(lines[1]), Len(lines[2])}) :
           /\ \E name \in Range(NumericColumns) : NamesColumn(lines[1][i], name)
           /\ lines[2][i] = <<>> \/ ~AllIn(lines[2][i], Digit)

\* C11: parse_file of a CSV file without a data row, without one of the
\* columns it reads, or with a non-numeric cell under a numeric column raises
\* and returns no record; the renderer that called it returns False, lets no
\* exception out and saves no image.
C11_ParseAllOrNothing ==
    \A k \in 1..Len(calls) :
        LET call == calls[k]
            lines == files[call.csv_path]
        IN  (/\ call.csv_path \in DOMAIN files
             /\ NoDataRow(lines) \/ LacksColumn(lines) \/ NonNumeric(lines))
            => /\ parse_file(call.csv_path).raised
               /\ parse_file(call.csv_path)
                      = ParseError(parse_file(call.csv_path).exception)
               /\ call.outcome.parse_called => call.outcome.parse.raised
               /\ call.outcome.returned = FALSE
               /\ call.outcome.raised = ""
               /\ call.outcome.saved = {}
               /\ images = {}

\* plot_coverage was handed a two-line file whose "Starting y" cell is "abc",
\* called parse_file, which raised ValueError, and returned False
C11_Witness ==
    /\ pc = "plotted"
    /\ calls[1].plot_function = "plot_coverage"
    /\ SimulationCsv \in DOMAIN files
    /\ files[SimulationCsv]
           = <<FullHeader, [Layout(FullHeader, GoodRow) EXCEPT ![3] = <<"a","b","c">>]>>
    /\ NonNumeric(files[SimulationCsv])
    /\ calls[1].outcome.parse_called
    /\ calls[1].outcome.parse.exception = "ValueError"
    /\ calls[1].outcome.returned = FALSE
    /\ images = {}

-----------------------------------------------------------------------------
(* Properties of the drivers: discovery *)

\* the script was run with -b
BatchMode == args.basefolder # None

\* the script was run with -d
FolderMode == args.folder # None

\* discovery is over and did not raise
Discovered == pc \in {"folder", "batch", "returned"} \/ (pc = "exited" /\ stats # NoStats)

\* the paths listed in csv_files
Listed == {csv_files[i].csv_path : i \in 1..Len(csv_files)}

\* the paths the plot function was called with
Plotted == {calls[k].csv_path : k \in 1..Len(calls)}

\* the CSV files on disk below (or in) a directory, those with one line only
\* and those with exactly two
FilesBelow(folder) == {path \in DOMAIN files : IsPrefix(folder, path)}

HeaderOnlyBelow(folder) == {path \in FilesBelow(folder) : Len(files[path]) = 1}

CompleteBelow(folder) == {path \in FilesBelow(folder) : Len(files[path]) = 2}

-----------------------------------------------------------------------------
(* Properties of the drivers: failures, calls, tally and exit status *)

\* C13 as stated: in folder mode and in batch mode no failure on a file aborts
\* the run: no exception leaves the driver, which goes on to return its tally.
C13_FailureNeverAborts == (FolderMode \/ BatchMode) => pc # "raised"

\* the calls made for a path
CallsFor(path) == {k \in 1..Len(calls) : calls[k].csv_path = path}

\* the driver has ended, by returning its tally or by an exception
DriverEnded == pc \in {"returned", "raised"} \/ (pc = "exited" /\ stats # NoStats)

\* no call of the plot function let an exception out
PlotsReturned == \A k \in 1..Len(calls) : calls[k].outcome.raised = ""

\* C14 as stated: when generic_process_folder or generic_process_batch has
\* ended, the plot function was called exactly once for every discovered file
\* whose paths validated and never for another, and the tally has
\* processed_count = number of discovered files, successful_count = number of
\* calls that returned true, processed_count = successful_count + failed_count
\* (taken here for the runs in which the plot function itself always returned).
C14_OneCallPerValidFile ==
    ((FolderMode \/ BatchMode) /\ DriverEnded /\ csv_files # <<>> /\ PlotsReturned)
        => /\ \A i \in 1..Len(csv_files) :
                  Cardinality(CallsFor(csv_files[i].csv_path))
                      = IF csv_files[i].csv_path \in Range(skipped) THEN 0 ELSE 1
           /\ Plotted \subseteq Listed
           /\ stats.processed_count = Len(csv_files)
           /\ stats.successful_count
                  = Cardinality({k \in 1..Len(calls) : calls[k].outcome.returned})
           /\ stats.processed_count = stats.successful_count + stats.failed_count

\* the file given with -f is missing or is not a complete file of two lines
SingleFileUnfit == ~path_exists(args.file) \/ Len(files[args.file]) # 2

\* at least one file failed, as C15 defines it for each mode
SomeFileFailed ==
    IF args.file # None
    THEN SingleFileUnfit \/ \E k \in 1..Len(calls) :
                                /\ calls[k].outcome.raised = ""
                                /\ ~calls[k].outcome.returned
    ELSE stats.failed_count > 0

\* C15 as stated: the exit status is 1 if and only if at least one file failed,
\* 2 only when parse_args found a required argument missing, and 0 otherwise.
C15_ExitStatus ==
    pc \in {"exited", "raised"}
        => /\ exit_status \in {0, 1, 2}
           /\ exit_status = 2 => args = NoArgs
           /\ exit_status # 2 => (exit_status = 1 <=> SomeFileFailed)

\* the places of the CSV files a run is to process
TargetSlots ==
    IF args.file # None THEN {args.file}
    ELSE IF args.folder # None
    THEN {path \in Range(WalkOrder) : dirname(path) = args.folder}
    ELSE {path \in Range(WalkOrder) : IsPrefix(args.basefolder, path)}

\* the scenarios of these files, as parse_csv_path_structure names them
TargetScenarios ==
    {parse_csv_path_structure(path).scenario :
         path \in {q \in TargetSlots : ~parse_csv_path_structure(q).is_none}}

\* C20 as stated: with -r the radius of the config is the value given; without
\* it, and the files to process being of one scenario, it is 2000 if that is a
\* Grid scenario and 1000 otherwise, in each of the three modes.
C20_DefaultRadius ==
    args # NoArgs
        => IF args.radius.given
           THEN config.circ_radius = args.radius.value
           ELSE \A scenario \in TargetScenarios :
                    Cardinality(TargetScenarios) = 1
                        => config.circ_radius
                               = IF Contains(scenario, Grid) THEN 2000 ELSE 1000

-----------------------------------------------------------------------------
(* Properties of the drivers: the config of the caller and of each file *)

\* the fields C16 names
Settings(cfg) ==
    <<cfg.mobility_file, cfg.poly_file, cfg.original_poly_file, cfg.building_mode>>

\* a driver is in its loop or past it
InDriver == pc \in {"folder", "batch", "returned"} \/ csv_files # <<>>

\* the entry of csv_files a call was made for
EntryOf(call) == csv_files[CHOOSE i \in 1..Len(csv_files) :
                               csv_files[i].csv_path = call.csv_path]

\* C16 as stated: while the folder driver or the batch driver processes its
\* files, the caller's config keeps its mobility_file, poly_file,
\* original_poly_file and building_mode.
C16_CallerConfigUnchanged ==
    ((FolderMode \/ BatchMode) /\ InDriver)
        => Settings(config) = Settings(main_config(args))

\* C16: with a map folder, generic_process_batch gives each file a fresh copy
\* of the config: the caller's config stays as generic_main made it, and the
\* config a file is rendered with is derived from that one and the file's own
\* building and name alone.  Without a map folder the batch driver hands the
\* caller's config itself to validate_paths and to the plot function.
C16_FreshCopyWithMapFolder ==
    (BatchMode /\ InDriver)
        => IF args.mapfolder # None
           THEN /\ config = main_config(args)
                /\ \A k \in 1..Len(calls) :
                       calls[k].config
                           = validate_paths(
                                 configure_buildings(
                                     set_paths_from_scenario(
                                         main_config(args), args.mapfolder, scenario_name),
                                     EntryOf(calls[k]).building,
                                     EntryOf(calls[k]).csv_filename)).config
           ELSE \A k \in 1..Len(calls) :
                    /\ calls[k].config = config
                    /\ Settings(config) = Settings(validate_paths(main_config(args)).config)

\* a batch with --mapfolder has rendered a b0 file without the polygon file and
\* then a b1 file with it, and the caller's config is as it was
C16_Witness ==
    /\ BatchMode
    /\ args.mapfolder = MapFolder
    /\ pc = "returned"
    /\ Len(calls) = 2
    /\ calls[1].config.building_mode = b0
    /\ calls[1].config.poly_file = None
    /\ calls[2].config.building_mode = b1
    /\ calls[2].config.poly_file = MapPoly
    /\ calls[2].outcome.buildings
    /\ config = main_config(args)
    /\ config.building_mode = None

-----------------------------------------------------------------------------
(* Properties of the drivers: files outside the directory convention *)

\* the path does not match the scenario directory convention
OffConvention(path) == ~detect_scenario_from_basepath(dirname(path)).structure_valid

\* the complete CSV files a run is to find
CompleteTargets ==
    IF FolderMode
    THEN {path \in CompleteBelow(args.folder) : dirname(path) = args.folder}
    ELSE CompleteBelow(args.basefolder)

\* the entry of csv_files for a path
EntryFor(path) == csv_files[CHOOSE i \in 1..Len(csv_files) : csv_files[i].csv_path = path]

\* C17 as stated: in folder mode and in batch mode a complete CSV file whose
\* path does not match the convention is listed, with building and protocol
\* "unknown".
C17_OffConventionListedUnknown ==
    ((FolderMode \/ BatchMode) /\ (Discovered \/ csv_files # <<>>))
        => \A path \in CompleteTargets :
               OffConvention(path)
                   => /\ path \in Listed
                      /\ EntryFor(path).building = unknown
                      /\ EntryFor(path).protocol = unknown

\* C17: discovery does not fail on a CSV file whose path does not match the
\* convention.  In folder mode the file is listed: with every field "unknown",
\* the scenario too, if parse_csv_path_structure returns None for its path, and
\* with the fields parse_csv_path_structure takes from the path by position
\* otherwise.  In batch mode the file is listed in the second case and left
\* out in the first.
C17_OffConventionListing ==
    ((FolderMode \/ BatchMode) /\ (Discovered \/ csv_files # <<>>))
        => /\ Cardinality(Listed) = Len(csv_files)
           /\ Listed = {path \in CompleteTargets :
                            FolderMode \/ ~parse_csv_path_structure(path).is_none}
           /\ \A path \in Listed :
                  EntryFor(path) = IF parse_csv_path_structure(path).is_none
                                   THEN UnknownInfo(path) ELSE FileInfo(path)
           /\ \A path \in Listed :
                  (OffConvention(path) /\ ~parse_csv_path_structure(path).is_none)
                      => EntryFor(path).building = path[Len(path) - 5]

\* folder mode on a directory outside the convention: the file was listed with
\* every field "unknown" and rendered below <output>/hops/misc/unknown
C17_Witness ==
    /\ FolderMode
    /\ args.folder = Misc
    /\ pc = "returned"
    /\ csv_files = <<UnknownInfo(Append(Misc, run1_csv))>>
    /\ OffConvention(Append(Misc, run1_csv))
    /\ stats = Stats(1, 1)
    /\ calls[1].output_path
           = <<dot, out, hops, misc, unknown, <<"r","u","n","1">>, run1_png>>

-----------------------------------------------------------------------------
(* Properties of validate_paths and of the batch driver that calls it *)

\* a path at which nothing exists
Nowhere == <<root, <<"n","o","w","h","e","r","e">>>>

Missing(path) == path # None /\ ~path_exists(path)

\* temp_config of the batch driver for the i-th file, before validate_paths
PreValidation(i) == batch_temp_config(main_config(args), scenario_name, csv_files[i]).config

\* C18: validate_paths returns no error for a polygon file that is missing, it
\* only sets poly_file to None and leaves the rest of the config alone, and it
\* returns an error for a missing mobility file, base folder or folder; the
\* batch driver skips a file whose mobility file is missing, and hands a file
\* whose polygon file is missing to the plot function, which draws no building.
C18_MissingPolyNoError ==
    /\ \A poly \in {GivenPoly, MapPoly, Nowhere} :
           LET cfg == [config EXCEPT !.poly_file = poly, !.original_poly_file = poly]
               without == [cfg EXCEPT !.poly_file = None]
           IN  Missing(poly)
                   => /\ validate_paths(cfg).errors = validate_paths(without).errors
                      /\ validate_paths(cfg).config = without
                      /\ Missing(cfg.mobility_file) \/ Missing(cfg.base_folder)
                             \/ Missing(cfg.folder) \/ validate_paths(cfg).errors = <<>>
    /\ validate_paths([config EXCEPT !.mobility_file = Nowhere]).errors # <<>>
    /\ validate_paths([config EXCEPT !.base_folder = Nowhere]).errors # <<>>
    /\ validate_paths([config EXCEPT !.folder = Nowhere]).errors # <<>>
    /\ (BatchMode /\ InDriver)
           => \A i \in 1..processed_count :
                  LET pre == PreValidation(i)
                      path == csv_files[i].csv_path
                  IN  IF Missing(pre.mobility_file)
                      THEN /\ path \in Range(skipped)
                           /\ CallsFor(path) = {}
                      ELSE /\ path \notin Range(skipped)
                           /\ Cardinality(CallsFor(path)) = 1
                           /\ \A k \in CallsFor(path) :
                                  /\ calls[k].config.mobility_file = pre.mobility_file
                                  /\ calls[k].config.original_poly_file
                                         = pre.original_poly_file
                                  /\ Missing(pre.poly_file)
                                         => /\ calls[k].config.poly_file = None
                                            /\ ~calls[k].outcome.buildings
                                  /\ calls[k].outcome.buildings
                                         <=> (~Missing(pre.poly_file) /\ pre.poly_file # None
                                                /\ calls[k].outcome.returned)

\* a batch with --mapfolder over a b1 file whose polygon file is missing: the
\* file was rendered, without buildings, and nothing failed
C18_Witness ==
    /\ BatchMode
    /\ args.mapfolder = MapFolder
    /\ pc = "returned"
    /\ MapPoly \notin aux_files
    /\ Len(calls) = 1
    /\ calls[1].csv_path = Append(GridB1, run1_csv)
    /\ PreValidation(1).poly_file = MapPoly
    /\ calls[1].config.poly_file = None
    /\ calls[1].config.original_poly_file = MapPoly
    /\ calls[1].outcome.returned
    /\ ~calls[1].outcome.buildings
    /\ skipped = <<>>
    /\ stats = Stats(1, 1)

-----------------------------------------------------------------------------
(* Properties of drawAll.main *)

Scripts == Range(processes)

\* C19: drawAll.main starts each of the four drawing scripts exactly once, as
\* a process of its own run by one of 4 pool workers, in any order; it goes
\* past pool.map, and returns, only when all four have ended; a keyboard
\* interrupt terminates the pool and the exit status is 1.
C19_EachScriptOnce ==
    /\ pool_state # "none"
           => /\ DOMAIN worker_task = 1..PoolSize
              /\ \A command \in Scripts : script_runs[command] <= 1
              /\ \A command \in script_done : script_runs[command] = 1
              /\ \A w, v \in 1..PoolSize :
                     (w # v /\ worker_task[w] # Idle)
                         => worker_task[w].command # worker_task[v].command
    /\ pc \in {"close", "done"}
           => /\ script_done = Scripts
              /\ \A command \in Scripts : script_runs[command] = 1
    /\ pc = "done" => (pool_state = "joined" /\ exit_status = 0)
    /\ pool_state = "terminated"
           => /\ pc = "exited"
              /\ exit_status = 1
              /\ \A w \in 1..PoolSize : worker_task[w] = Idle
    /\ (pc = "exited" /\ pool_state # "none") => pool_state = "terminated"

\* main has returned after the four scripts ran, each once
C19_Witness ==
    /\ pc = "done"
    /\ pool_state = "joined"
    /\ script_done = Scripts
    /\ Cardinality(Scripts) = 4
    /\ \A command \in Scripts : script_runs[command] = 1

-----------------------------------------------------------------------------
(* Properties of validate_structure_parts, as the detector reports them *)

\* the sequence of patterns the relative path is held against
ExpectedSequence(rel) ==
    IF Len(rel) >= 5 /\ MatchCw(rel[5])
    THEN <<"building", "error_rate", "txRange", "junction", "cw", "protocol">>
    ELSE <<"building", "error_rate", "txRange", "junction", "protocol">>

-----------------------------------------------------------------------------
(* Properties of configure_buildings *)

\* "b0" occurs in the file name as it is written
NameHasB0(filename) == filename # None /\ Contains(filename, b0)

\* the code finds "b0" in the lowered file name
NameHasB0AnyCase(filename) == filename # None /\ Contains(lower(filename), b0)

\* C22: after configure_buildings(building_mode, filename), with force_buildings
\* and original_poly_file set poly_file is original_poly_file; without
\* force_buildings, poly_file is None if the mode is "b0" or the file name
\* contains "b0", and it is original_poly_file if no "b0" is found (in the mode
\* or in the file name, whatever its case) and the mode is "b1".  The call
\* leaves original_poly_file, mobility_file and force_buildings as they were.
C22_ConfigureBuildings ==
    \A k \in 1..Len(calls) :
        LET call == calls[k]
            b == call.before
            a == call.after
        IN  /\ (b.force_buildings /\ b.original_poly_file # None)
                   => a.poly_file = b.original_poly_file
            /\ (~b.force_buildings
                    /\ (call.building_mode = b0 \/ NameHasB0(call.filename)))
                   => a.poly_file = None
            /\ (~b.force_buildings /\ call.building_mode = b1
                    /\ ~NameHasB0AnyCase(call.filename))
                   => a.poly_file = b.original_poly_file
            /\ a.original_poly_file = b.original_poly_file
            /\ a.mobility_file = b.mobility_file
            /\ a.force_buildings = b.force_buildings
            /\ a.building_mode = call.building_mode

\* with --force-buildings and -p, the second call, for mode b0 and a file name
\* with b0, left poly_file at the polygon file given
C22_Witness ==
    /\ pc = "buildings"
    /\ Len(calls) = 2
    /\ config.force_buildings
    /\ config.original_poly_file = GivenPoly
    /\ calls[2].building_mode = b0
    /\ calls[2].filename = b0_run_csv
    /\ calls[2].after.poly_file = GivenPoly
    /\ config = calls[2].after

-----------------------------------------------------------------------------
(* Properties of generic_process_single_file: buildings *)

\* the run is for one file (-f)
SingleFileMode == args.file # None

\* the building segment of the file's path is b0, or its name contains b0
PathSaysB0(csv_file) ==
    LET path_info == parse_csv_path_structure(csv_file)
    IN  \/ ~path_info.is_none /\ path_info.building = b0
        \/ Contains(lower(basename(csv_file)), b0)

\* C23: in single-file mode, whenever the building segment of the CSV path is
\* b0 (or the file name contains b0) and --force-buildings is not set, the
\* rendering function is invoked with config.poly_file = None, whether the
\* mobility source was given by -m or by --mapfolder and whether or not -p was
\* given.
C23_B0RendersWithoutBuildings ==
    (SingleFileMode /\ ~args.force_buildings)
        => \A k \in 1..Len(calls) :
               PathSaysB0(calls[k].csv_path) => calls[k].config.poly_file = None

\* the file of a b0 directory is rendered, from -m and -p, with the polygon
\* file still set
C23_Counterexample ==
    ~ /\ SingleFileMode
      /\ args.file = Append(GridRoff, run1_csv)
      /\ args.mobility = GivenMobility /\ args.poly = GivenPoly
      /\ ~args.force_buildings
      /\ Len(calls) = 1
      /\ PathSaysB0(calls[1].csv_path)
      /\ calls[1].config.building_mode = None
      /\ calls[1].config.poly_file = GivenPoly
      /\ calls[1].outcome.returned
      /\ calls[1].outcome.buildings

-----------------------------------------------------------------------------
(* Properties of is_file_complete *)

\* is_file_complete has been called on the file given with -f
CompletenessChecked ==
    /\ SingleFileMode
    /\ path_exists(args.file)
    /\ pc \in {"exited", "raised"}

\* C24: is_file_complete returns True exactly when the file has more than one
\* line and False otherwise (including for a file with zero or one line),
\* without raising.  Seen from the single-file run: the check raises nothing,
\* and the file goes on to the renderer exactly when it has more than one line.
C24_Counterexample ==
    CompletenessChecked
        => LET result == is_file_complete(files[args.file])
           IN  /\ ~result.raised
               /\ result.value = (Len(files[args.file]) > 1)
               /\ traceback # "UnboundLocalError"
               /\ (Len(calls) = 1) = (Len(files[args.file]) > 1)

-----------------------------------------------------------------------------
(* Properties of find_coords_from_file against parse_node_list *)

\* the file holds node records only, each with its X_, Y_ and Z_ line
CompleteRecords == \A i \in 1..Len(mobility_file) : mobility_file[i] \notin NoiseLines

\* the records written for the node looked up, by their place in the file
RecordsOf(node_id) == {i \in 1..Len(written) : written[i].id = node_id}

VectorOf(record) == [x |-> record.x, y |-> record.y, z |-> record.z]

\* C25 as stated: on a file made of complete X_/Y_/Z_ records,
\* find_coords_from_file(id, file) returns the same Vector as
\* parse_node_list(file)[id] when the id occurs in the file, and None exactly
\* when the id is not a key of parse_node_list(file).
C25_LookupsAgree ==
    (pc = "looked" /\ CompleteRecords) =>
        LET key == str(lookup.node_id)
        IN  /\ ~lookup.result.raised /\ ~coord_dict.raised
            /\ lookup.result.is_none <=> (key \notin DOMAIN coord_dict.dict)
            /\ key \in DOMAIN coord_dict.dict
                   => lookup.result.value = <<coord_dict.dict[key]>>

\* C25: on a file made of complete X_/Y_/Z_ records, find_coords_from_file(id,
\* file) returns the Vector of the first record of the id and
\* parse_node_list(file)[id] is the Vector of its last record, so the two agree
\* when the id occurs in one record only; find_coords_from_file returns None
\* exactly when the id is not a key of parse_node_list(file).
C25_FirstAgainstLastRecord ==
    (pc = "looked" /\ CompleteRecords) =>
        LET key == str(lookup.node_id)
            records == RecordsOf(lookup.node_id)
        IN  /\ ~lookup.result.raised /\ ~coord_dict.raised
            /\ lookup.result.is_none <=> (key \notin DOMAIN coord_dict.dict)
            /\ (key \in DOMAIN coord_dict.dict) <=> (records # {})
            /\ records # {}
                   => /\ lookup.result.value = <<VectorOf(written[Min(records)])>>
                      /\ coord_dict.dict[key] = VectorOf(written[Max(records)])
            /\ Cardinality(records) = 1
                   => lookup.result.value = <<coord_dict.dict[key]>>

\* node 12 is looked up in a file with its record behind another node's
C25_Witness ==
    /\ pc = "looked"
    /\ CompleteRecords
    /\ Len(written) = 2
    /\ lookup.node_id = 12
    /\ written[1].id # 12
    /\ written[2] = [id |-> 12, x |-> -7, y |-> 0, z |-> 3]
    /\ lookup.result.value = <<[x |-> -7, y |-> 0, z |-> 3]>>
    /\ coord_dict.dict[<<"1", "2">>] = lookup.result.value[1]

-----------------------------------------------------------------------------
(* Properties of generate_output_path over one batch run *)

\* C26: within one recursive batch run, two distinct CSV files found under the
\* base folder are never given the same output path by generate_output_path.
C26_Counterexample ==
    BatchMode
        => \A j, k \in 1..Len(calls) :
               calls[j].csv_path # calls[k].csv_path
                   => calls[j].output_path # calls[k].output_path

-----------------------------------------------------------------------------
(* Properties of parse_csv_path_structure on the job generator's directories *)

\* p is <scenario>/b0/e0/r100/j0/[cw[32-1024]/]<protocol>/<file>.csv below some
\* directory, with the scenario segment at place s
JobPath(p, s, with_cw) ==
    LET n == Len(p)
    IN  /\ n = s + (IF with_cw THEN 7 ELSE 6)
        /\ s >= 1
        /\ MatchScenario(p[s])
        /\ SubSeq(p, s + 1, s + 4) = <<b0, e0, r100, j0>>
        /\ with_cw => p[s + 5] = cw_32_1024
        /\ \E k \in 1..Len(protocols_map) : p[n - 1] = protocols_map[k]
        /\ EndsWith(p[n], dot_csv)

\* C27: for every protocol name in the job generator's protocol table, a CSV
\* file stored at <scenario>/b0/e0/r100/j0/[cw[32-1024]/]<protocol>/<file>.csv
\* is parsed by parse_csv_path_structure with scenario = <scenario> and
\* protocol = <protocol>.
C27_Counterexample ==
    pc = "parsed" =>
        \A with_cw \in BOOLEAN, s \in 1..Len(csv_path) :
            JobPath(csv_path, s, with_cw) =>
                /\ ~components.is_none
                /\ components.scenario = csv_path[s]
                /\ components.protocol = csv_path[Len(csv_path) - 1]

-----------------------------------------------------------------------------
(* Properties of generate_maps_and_jobs.main *)

\* the area the scenario name stands for
AreaOf(scenario) ==
    IF Contains(scenario, Platoon) THEN 14000
    ELSE IF Contains(scenario, Grid) THEN 2000
    ELSE IF Contains(scenario, Cube) /\ scenario # Cube_75 THEN 1300
    ELSE 1000

\* C28: the area value passed to run_scenario for a scenario depends only on
\* that scenario's name (14000 for Platoon, 2000 for Grid, 1300 for Cube other
\* than Cube-75, 1000 otherwise) and not on which scenarios or contention
\* windows were processed before it in the same run.
C28_Counterexample ==
    \A k \in 1..Len(run_scenario_calls) :
        ~run_scenario_calls[k].manual
            => run_scenario_calls[k].area = AreaOf(run_scenario_calls[k].scenario)

-----------------------------------------------------------------------------
(* Properties of read_csv_from_directory *)

\* the data rows of the files read so far, in the order they were read
RECURSIVE RowsRead(_)
RowsRead(k) ==
    IF k = 0 THEN <<>>
    ELSE RowsRead(k - 1)
             \o (IF entry_passed_over(listing[k]) \/ Len(listing[k].rows) <= 1
                 THEN <<>> ELSE Tail(listing[k].rows))

\* the row is neither skipped for an invalid value nor left by an exception
AcceptedRow(row) ==
    /\ ~has_invalid_value(row)
    /\ Len(row) >= 13
    /\ \A i \in {6, 7, 8, 9, 13} : is_int(row[i])
    /\ \A i \in {11, 12} : is_float(row[i])
    /\ int(row[6]) # 0
    /\ int(row[7]) # 0

AcceptedRows == SelectSeq(RowsRead(file_index - 1), AcceptedRow)

ListNames == DOMAIN NoLists

\* C29: a row that is skipped (an invalid value, or an exception while it is
\* read) contributes to no statistic, so that the nine lists total_nodes,
\* nodes_on_circ, total_coverage, cov_on_circ, hops, slots, message_sent,
\* total_coverage_percent and cov_on_circ_percent all have the same length,
\* the number of accepted rows, and hold the values of the accepted rows only.
C29_Counterexample ==
    pc \in {"graphs", "graphs_done"} =>
        /\ \A name \in ListNames : Len(lists[name]) = Len(AcceptedRows)
        /\ lists = read_rows(NoLists, AcceptedRows, 1)

====
